---- MODULE Spec2Model ----
(***************************************************************************)
(* Streaming producer/consumer audio pipeline of the cinematic voice       *)
(* system (src/content.js): AudioProducer, AudioConsumer,                  *)
(* CinematicVoiceOrchestrator, CinematicStateManager and                   *)
(* CinematicExperienceOrchestrator.                                        *)
(*                                                                         *)
(* JavaScript runs every handler to its next await; one action of this     *)
(* module is one such synchronous segment.  Every session (one call of     *)
(* CinematicExperienceOrchestrator.play) owns one producer and one         *)
(* consumer, indexed by the session number.                                *)
(***************************************************************************)
EXTENDS Integers, Sequences, FiniteSets, TLC

\* ------------------------------------------------------------------ bounds
MaxSessions == 2        \* play() calls explored
MaxBlocks   == 1        \* script blocks of a story, with several sessions
MaxChunks   == 2        \* chunks smartSplit yields for one block
MaxUnits    == 2        \* chunks of the whole story
SoloBlocks  == 2        \* the same three, when a single play() call is explored
SoloChunks  == 3
SoloUnits   == 4
MaxSpeaks   == 2        \* speak() calls of the TTS engines explored
MaxButtons  == 2        \* mic buttons (messages) on the page
SpeakChunks == 2        \* chunks smartSplit yields for one spoken message
MaxText     == 6        \* characters of a raw text given to parseScript
MaxScript   == 5        \* blocks of a script given to detectSpeakers
MaxCast     == 4        \* characters of a registry given to assignVoices
MaxNames    == 2        \* names of a list given to prepareVoiceCasting
MaxLines    == 2        \* blocks of a script given to prepareVoiceCasting
MaxPieces   == 3        \* words and quoted spans of a text given to the pipeline
MaxWords    == 3        \* words of a text given to extractCharacterNames
PadLength   == 296      \* letters of the long lower-case stretch of such a text
ShortText   == 300      \* below this length a text is short: one mention is enough
SplitPieces == 4        \* pieces of a text given to smartSplit
MaxLength   == 7        \* largest maxLength given to smartSplit

Sessions == 1..MaxSessions

\* unreal_speech takes the paths of eleven_labs (a key check, a request, an
\* audio buffer played by playAudioBuffer) and is not listed apart.
Providers == {"web_speech", "eleven_labs"}

RECURSIVE Sum(_)
Sum(q) == IF q = <<>> THEN 0 ELSE Head(q) + Sum(Tail(q))

\* Scripts: one entry per block, the number of chunks smartSplit returns.
Scripts(maxBlocks, maxChunks, maxUnits) ==
  {q \in UNION {[1..n -> 1..maxChunks] : n \in 0..maxBlocks} :
     Sum(q) <= maxUnits}

VARIABLES
  script,          \* the story, as chunk counts per block
  elevenLabsKey,   \* StorageManager.get('elevenLabsKey') is set
  nSessions,       \* number of play() calls made so far
  producer,        \* AudioProducer of each session
  consumer,        \* AudioConsumer of each session
  voice,           \* CinematicVoiceOrchestrator of each session
  ePc,             \* where the play() call of each session is suspended
  orchestrator,    \* CinematicExperienceOrchestrator.orchestrator: 0 is null
  state,           \* CinematicStateManager.state
  hist,            \* what an observer of each session has seen so far
  controller,      \* VoiceController: currentButton (0 is null), playbackState
  tts,             \* the TTS engines and their speak() calls
  parser,          \* a call of parseScript: its rawText and its result
  resolver,        \* a call of detectSpeakers: its arguments and its result
  assigner,        \* a call of assignVoices: the registry before and after
  caster,          \* a call of prepareVoiceCasting
  pipeline,        \* two calls of parseScriptComplete with one character list
  extractor,       \* a call of extractCharacterNames
  splitter         \* a call of smartSplit: its arguments and its result

\* the calls of the text-analysis functions other than parseScript
textVars == <<resolver, assigner, caster, pipeline, extractor, splitter>>

vars == <<script, elevenLabsKey, nSessions, producer, consumer, voice, ePc,
          orchestrator, state, hist, controller, tts, parser, textVars>>

\* The mutable objects as one value, so that a handler that calls other
\* handlers is the composition of their effects.
World ==
  [producer |-> producer, consumer |-> consumer, voice |-> voice, ePc |-> ePc,
   orchestrator |-> orchestrator, state |-> state, hist |-> hist]

Becomes(w) ==
  /\ producer' = w.producer
  /\ consumer' = w.consumer
  /\ voice' = w.voice
  /\ ePc' = w.ePc
  /\ orchestrator' = w.orchestrator
  /\ state' = w.state
  /\ hist' = w.hist
  /\ UNCHANGED <<script, elevenLabsKey, controller, tts, parser, textVars>>

\* ------------------------------------------------- construction
NewProducer ==
  [pc |-> "new", block |-> 0, chunk |-> 0, provider |-> "web_speech",
   audioQueue |-> <<>>, isGenerating |-> FALSE, generatedCount |-> 0,
   totalBlocks |-> 0, currentBlock |-> 0]

NewConsumer ==
  [pc |-> "new", isPlaying |-> FALSE, currentIndex |-> 0, isStopped |-> FALSE]

NewVoice == [isActive |-> FALSE]

NewHist ==
  [appended      |-> <<>>,   \* items in the order processBlock pushed them
   played        |-> <<>>,   \* items in the order playChunk was entered
   stopCalled    |-> FALSE,  \* AudioProducer.stop() ran
   callAfterStop |-> FALSE,  \* generateTTS was called after that stop()
   pushAfterStop |-> FALSE,  \* an item was pushed after that stop()
   playAfterStop |-> FALSE,  \* playChunk was entered after AudioConsumer.stop()
   configFailed  |-> FALSE,  \* generateElevenLabs threw 'API key not configured'
   callAfterConfig |-> FALSE,\* generateTTS was called after that failure
   failed        |-> <<>>,   \* items whose generateTTS call threw
   genErrors     |-> 0,      \* reports by processBlock's catch block
   playFailed    |-> 0,      \* playbacks that rejected
   playErrors    |-> 0,      \* the consumer's onError calls
   chunkEnd      |-> 0,      \* the points where playChunk emits onChunkEnd
   progress      |-> 0,      \* the points where the loop emits onProgress
   playEnd       |-> 0,      \* onPlayEnd calls
   loopCheck     |-> [seen |-> FALSE]]  \* the loop's last check

\* VoiceController as constructed, with settings.cinematicMode off
NewController ==
  [currentButton |-> 0, playbackState |-> "IDLE", provider |-> "web_speech"]

\* The engines as constructed: no speak() call yet, ElevenLabsTTS
\* .currentSource null (0), speechSynthesis not paused, the page visible.
NewTts ==
  [calls |-> <<>>, currentSource |-> 0, paused |-> FALSE, hidden |-> FALSE]

InitialState ==
  [isCinematicModeEnabled |-> FALSE,
   isGenerating     |-> FALSE,
   isPlaying        |-> FALSE,
   isActive         |-> FALSE,
   currentProvider  |-> "web_speech",
   currentSessionId |-> 0,
   statusMessage    |-> "Ready",
   currentPhase     |-> "null",
   hasError         |-> FALSE]

\* no text-analysis function has been called
NoCall == [pc |-> "idle"]
NoCalls ==
  /\ splitter = NoCall
  /\ resolver = NoCall
  /\ assigner = NoCall
  /\ caster = NoCall
  /\ pipeline = NoCall
  /\ extractor = NoCall

InitWith(scripts) ==
  /\ script \in scripts
  /\ elevenLabsKey \in BOOLEAN
  /\ nSessions = 0
  /\ producer = [s \in Sessions |-> NewProducer]
  /\ consumer = [s \in Sessions |-> NewConsumer]
  /\ voice = [s \in Sessions |-> NewVoice]
  /\ ePc = [s \in Sessions |-> "none"]
  /\ orchestrator = 0
  /\ \E p \in Providers, c \in BOOLEAN :
       state = [InitialState EXCEPT !.currentProvider = p,
                                    !.isCinematicModeEnabled = c]
  /\ hist = [s \in Sessions |-> NewHist]
  /\ controller = NewController
  /\ tts = NewTts
  /\ parser = [rawText |-> <<>>, pc |-> "idle", script |-> <<>>]
  /\ NoCalls

Init == InitWith(Scripts(MaxBlocks, MaxChunks, MaxUnits))

InitSolo == InitWith(Scripts(SoloBlocks, SoloChunks, SoloUnits))

\* ------------------------------------------------- CinematicStateManager
reset(st) ==
  [st EXCEPT !.isGenerating = FALSE, !.isPlaying = FALSE, !.isActive = FALSE,
             !.currentSessionId = 0, !.statusMessage = "Ready",
             !.currentPhase = "null", !.hasError = FALSE]

\* message.includes(keyword), for the messages the orchestrators emit
MsgAnalyzing  == {"Analyzing story..."}
MsgGenerating == {"Generating audio...", "Generating block"}
MsgPlaying    == {"Playing cinematic scene..."}

\* CinematicExperienceOrchestrator.updateStatus, on the state record
updateStatus(st, message) ==
  LET phase == IF message \in MsgAnalyzing THEN "parsing"
               ELSE IF message \in MsgGenerating THEN "generating"
               ELSE IF message \in MsgPlaying THEN "playing"
               ELSE st.currentPhase
  IN [st EXCEPT !.statusMessage = message,
                !.currentPhase  = phase,
                !.isGenerating  = (message \notin MsgAnalyzing
                                   /\ message \in MsgGenerating),
                !.isPlaying     = (message \notin MsgAnalyzing
                                   /\ message \notin MsgGenerating
                                   /\ message \in MsgPlaying)]

\* CinematicVoiceOrchestrator.updateStatus: onStatusUpdate is the closure
\* installed by CinematicExperienceOrchestrator.playCinematic, which stays
\* installed for the life of the voice orchestrator.
VoiceUpdateStatus(w, message) ==
  [w EXCEPT !.state = updateStatus(w.state, message)]

\* ------------------------------------------------------- AudioProducer
\* The outcomes generateTTS can have for one chunk.
\*   web_speech  : generateWebSpeech only builds an utterance
\*   eleven_labs : generateElevenLabs throws at once without a key; with one,
\*                 the request and the decoding succeed or throw
GenOutcomes(prov, key) ==
  IF prov = "web_speech" THEN {"ok"}
  ELSE IF ~key THEN {"nokey"}
  ELSE {"ok", "fail"}

\* AudioProducer.stop() that keeps the queue
ProducerStopKeepQueue(w, s) ==
  [w EXCEPT !.producer[s].isGenerating = FALSE,
            !.producer[s].generatedCount = 0,
            !.producer[s].currentBlock = 0,
            !.hist[s].stopCalled = TRUE]

\* AudioProducer.stop() that keeps the count of generated units
ProducerStopKeepCount(w, s) ==
  [w EXCEPT !.producer[s].isGenerating = FALSE,
            !.producer[s].audioQueue = <<>>,
            !.producer[s].currentBlock = 0,
            !.hist[s].stopCalled = TRUE]

\* AudioProducer.stop()
ProducerStop(w, s) ==
  [w EXCEPT !.producer[s].isGenerating = FALSE,
            !.producer[s].audioQueue = <<>>,
            !.producer[s].generatedCount = 0,
            !.producer[s].currentBlock = 0,
            !.hist[s].stopCalled = TRUE]

\* processBlock reaches `await this.generateTTS(chunkText, block.voice)` for
\* chunk c of block b (both counted from 0, as in the queue items).
StartCall(w, s, b, c) ==
  [w EXCEPT !.producer[s].pc = "awaitTTS",
            !.producer[s].block = b,
            !.producer[s].chunk = c,
            !.hist[s].callAfterStop = @ \/ w.hist[s].stopCalled,
            !.hist[s].callAfterConfig = @ \/ w.hist[s].configFailed]

\* GenerationComplete that leaves isGenerating set
GenerationCompleteStuck(w, s) ==
  [w EXCEPT !.producer[s].pc = "done"]

\* generateScript after its loop: isGenerating = false, onComplete (no
\* listener in CinematicVoiceOrchestrator), the promise resolves.  Its catch
\* block is not modelled: processBlock catches every error of generateTTS,
\* so nothing reaches it.
GenerationComplete(w, s) ==
  [w EXCEPT !.producer[s].pc = "done",
            !.producer[s].isGenerating = FALSE]

\* producer.onProgress as CinematicVoiceOrchestrator.playCinematic installs it
ProducerOnProgress(w, s) == VoiceUpdateStatus(w, "Generating block")

\* ChunkResult that queues a unit for a failed chunk as well
ChunkResultQueuesFailed(w, s, outcome) ==
  LET p    == w.producer[s]
      item == <<p.block, p.chunk>>
      w1   == IF outcome = "ok" THEN w
              ELSE [w EXCEPT !.hist[s].failed = Append(@, item),
                             !.hist[s].genErrors = @ + 1,
                             !.hist[s].configFailed = @ \/ (outcome = "nokey")]
  IN ProducerOnProgress(
       [w1 EXCEPT !.producer[s].audioQueue = Append(@, item),
                  !.producer[s].generatedCount = @ + 1,
                  !.hist[s].appended = Append(@, item),
                  !.hist[s].pushAfterStop = @ \/ w.hist[s].stopCalled], s)

\* ChunkResult that holds a generated unit back instead of pushing it
ChunkResultHoldsBack(w, s, outcome) ==
  LET p    == w.producer[s]
      item == <<p.block, p.chunk>>
  IN IF outcome = "ok"
     THEN ProducerOnProgress(w, s)
     ELSE [w EXCEPT !.hist[s].failed = Append(@, item),
                    !.hist[s].genErrors = @ + 1,
                    !.hist[s].configFailed = @ \/ (outcome = "nokey")]

\* processBlock after the awaited call: the push, or the catch block with
\* its report (console.error, and onError where a listener is installed)
ChunkResult(w, s, outcome) ==
  LET p    == w.producer[s]
      item == <<p.block, p.chunk>>
  IN IF outcome = "ok"
     THEN ProducerOnProgress(
            [w EXCEPT !.producer[s].audioQueue = Append(@, item),
                      !.producer[s].generatedCount = @ + 1,
                      !.hist[s].appended = Append(@, item),
                      !.hist[s].pushAfterStop = @ \/ w.hist[s].stopCalled], s)
     ELSE [w EXCEPT !.hist[s].failed = Append(@, item),
                    !.hist[s].genErrors = @ + 1,
                    !.hist[s].configFailed = @ \/ (outcome = "nokey")]

\* the loops of processBlock and generateScript, from the end of one
\* iteration of the chunk loop to the next await or to the end
NextChunk(w, s) ==
  LET b == w.producer[s].block
      c == w.producer[s].chunk
  IN IF c + 1 < script[b + 1]
     THEN StartCall(w, s, b, c + 1)
     ELSE LET w1 == [w EXCEPT !.producer[s].currentBlock = @ + 1]
          IN IF b + 1 < Len(script)
             THEN StartCall(w1, s, b + 1, 0)
             ELSE GenerationComplete(w1, s)

\* generateScript(script) up to its first await
generateScript(w, s) ==
  LET w1 == [w EXCEPT !.producer[s].audioQueue = <<>>,
                      !.producer[s].isGenerating = TRUE,
                      !.producer[s].generatedCount = 0,
                      !.producer[s].totalBlocks = Len(script),
                      !.producer[s].currentBlock = 0]
  IN IF Len(script) = 0 THEN GenerationComplete(w1, s)
     ELSE StartCall(w1, s, 0, 0)

\* ------------------------------------------------------- AudioConsumer
\* How the awaited playback of one unit can end.
\*   web_speech  : playWebSpeech resolves on the utterance's end event and
\*                 rejects on its error event
\*   eleven_labs : playAudioBuffer resolves on the source's ended event and
\*                 has no rejecting path
PlayOutcomes(prov) ==
  IF prov = "web_speech" THEN {"ok", "fail"} ELSE {"ok"}

\* consumer.onPlayEnd as CinematicVoiceOrchestrator.playCinematic installs it
ConsumerOnPlayEnd(w, s) ==
  [VoiceUpdateStatus(w, "Playback finished") EXCEPT !.voice[s].isActive = FALSE]

\* playbackLoop after its loop
LoopExit(w, s) ==
  ConsumerOnPlayEnd(
    [w EXCEPT !.consumer[s].pc = "exited",
              !.consumer[s].isPlaying = FALSE,
              !.hist[s].playEnd = @ + 1], s)

\* playChunk up to its await: onChunkStart, then the unit starts to play
playChunk(w, s) ==
  LET item == w.producer[s].audioQueue[w.consumer[s].currentIndex + 1]
      w1   == VoiceUpdateStatus(w, "chunk line")
  IN [w1 EXCEPT !.consumer[s].pc = "playing",
                !.hist[s].played = Append(@, item),
                !.hist[s].playAfterStop = @ \/ w.consumer[s].isStopped]

\* playbackLoop that takes an empty queue for the end of the stream
playbackLoopEager(w, s) ==
  LET c  == w.consumer[s]
      p  == w.producer[s]
      w1 == [w EXCEPT !.hist[s].loopCheck =
               [seen |-> TRUE, isStopped |-> c.isStopped,
                isGenerating |-> p.isGenerating,
                currentIndex |-> c.currentIndex,
                length |-> Len(p.audioQueue)]]
  IN IF c.isStopped THEN LoopExit(w1, s)
     ELSE IF c.currentIndex < Len(p.audioQueue) THEN playChunk(w1, s)
     ELSE LoopExit(w1, s)

\* one pass through the head of playbackLoop's while (true); loopCheck keeps
\* what the pass read
playbackLoop(w, s) ==
  LET c  == w.consumer[s]
      p  == w.producer[s]
      w1 == [w EXCEPT !.hist[s].loopCheck =
               [seen |-> TRUE, isStopped |-> c.isStopped,
                isGenerating |-> p.isGenerating,
                currentIndex |-> c.currentIndex,
                length |-> Len(p.audioQueue)]]
  IN IF c.isStopped THEN LoopExit(w1, s)
     ELSE IF c.currentIndex < Len(p.audioQueue) THEN playChunk(w1, s)
     ELSE IF ~p.isGenerating THEN LoopExit(w1, s)
     ELSE [w1 EXCEPT !.consumer[s].pc = "sleeping"]

\* ChunkPlayed that leaves the cursor on a unit that failed to play
ChunkPlayedRetry(w, s, outcome) ==
  IF outcome = "ok"
  THEN [w EXCEPT !.hist[s].chunkEnd = @ + 1,
                 !.consumer[s].currentIndex = @ + 1,
                 !.hist[s].progress = @ + 1]
  ELSE [w EXCEPT !.hist[s].playFailed = @ + 1,
                 !.hist[s].playErrors = @ + 1]

\* ChunkPlayed with a cursor that advances by two
ChunkPlayedSkip(w, s, outcome) ==
  LET w1 == IF outcome = "ok" THEN [w EXCEPT !.hist[s].chunkEnd = @ + 1]
            ELSE [w EXCEPT !.hist[s].playFailed = @ + 1,
                           !.hist[s].playErrors = @ + 1]
  IN [w1 EXCEPT !.consumer[s].currentIndex = @ + 2,
                !.hist[s].progress = @ + 1]

\* ChunkPlayed that reports a failed unit as ended, too
ChunkPlayedBoth(w, s, outcome) ==
  LET w1 == IF outcome = "ok" THEN [w EXCEPT !.hist[s].chunkEnd = @ + 1]
            ELSE [w EXCEPT !.hist[s].playFailed = @ + 1,
                           !.hist[s].chunkEnd = @ + 1,
                           !.hist[s].playErrors = @ + 1]
  IN [w1 EXCEPT !.consumer[s].currentIndex = @ + 1,
                !.hist[s].progress = @ + 1]

\* playChunk after its await (onChunkEnd, or onError in the catch block),
\* then playbackLoop's currentIndex++ and onProgress
ChunkPlayed(w, s, outcome) ==
  LET w1 == IF outcome = "ok" THEN [w EXCEPT !.hist[s].chunkEnd = @ + 1]
            ELSE [w EXCEPT !.hist[s].playFailed = @ + 1,
                           !.hist[s].playErrors = @ + 1]
  IN [w1 EXCEPT !.consumer[s].currentIndex = @ + 1,
                !.hist[s].progress = @ + 1]

\* AudioConsumer.play()
ConsumerPlay(w, s) ==
  IF w.consumer[s].isPlaying THEN w
  ELSE playbackLoop(
         VoiceUpdateStatus(
           [w EXCEPT !.consumer[s].isPlaying = TRUE,
                     !.consumer[s].isStopped = FALSE,
                     !.consumer[s].currentIndex = 0],
           "Playing cinematic scene..."), s)

\* AudioConsumer.stop()
ConsumerStop(w, s) ==
  ProducerStop([w EXCEPT !.consumer[s].isStopped = TRUE,
                         !.consumer[s].isPlaying = FALSE], s)

\* ------------------------------------------ CinematicVoiceOrchestrator
\* playCinematic(rawText) up to `await this.consumer.play()`
VoicePlayCinematic(w, s) ==
  LET w1 == VoiceUpdateStatus([w EXCEPT !.voice[s].isActive = TRUE],
                              "Analyzing story...")
      w2 == VoiceUpdateStatus(w1, "Generating audio...")
      w3 == [w2 EXCEPT !.producer[s] =
               [NewProducer EXCEPT !.provider = w.state.currentProvider]]
      w4 == generateScript(w3, s)
      w5 == [w4 EXCEPT !.consumer[s] = NewConsumer]
  IN ConsumerPlay(w5, s)

\* playCinematic(rawText) when parseScriptComplete throws (rawText is not a
\* string, so parseScript's rawText.trim is not a function): the catch block
VoicePlayCinematicThrows(w, s) ==
  LET w1 == VoiceUpdateStatus([w EXCEPT !.voice[s].isActive = TRUE],
                              "Analyzing story...")
      w2 == VoiceUpdateStatus(w1, "Error during playback")
  IN [w2 EXCEPT !.voice[s].isActive = FALSE]

\* stop(): this.consumer is null until playCinematic got past parsing
VoiceStop(w, s) ==
  LET w1 == IF w.consumer[s].pc = "new" THEN w ELSE ConsumerStop(w, s)
  IN VoiceUpdateStatus([w1 EXCEPT !.voice[s].isActive = FALSE], "Stopped")

\* -------------------------------------- CinematicExperienceOrchestrator
\* stop()
ExperienceStop(w) ==
  LET w1 == IF w.orchestrator # 0
            THEN [VoiceStop(w, w.orchestrator) EXCEPT !.orchestrator = 0]
            ELSE w
  IN [w1 EXCEPT !.state = reset(w1.state)]

\* playCinematic(storyText, sessionId) up to its await
PlayCinematic(w, s, isString) ==
  LET w1 == [w EXCEPT !.state.statusMessage = "Preparing cinematic scene...",
                      !.state.currentPhase = "parsing",
                      !.orchestrator = s]
      w2 == [w1 EXCEPT !.state.statusMessage = "Analyzing story...",
                       !.state.currentPhase = "parsing"]
  IN IF isString
     THEN [VoicePlayCinematic(w2, s) EXCEPT !.ePc[s] = "awaitCinematic"]
     ELSE [VoicePlayCinematicThrows(w2, s) EXCEPT !.ePc[s] = "awaitThrown"]

\* playSimple(storyText, sessionId) up to its await of the 1000 ms timer
PlaySimple(w, s) ==
  [w EXCEPT !.state.statusMessage = "Playing...",
            !.state.currentPhase = "playing",
            !.state.isGenerating = FALSE,
            !.state.isPlaying = TRUE,
            !.ePc[s] = "awaitSimple"]

\* play(storyText) up to its await; isString: storyText is a string
ExperiencePlay(w, s, isString) ==
  LET w1 == IF w.state.isActive THEN ExperienceStop(w) ELSE w
      w2 == [w1 EXCEPT !.state.isActive = TRUE,
                       !.state.currentSessionId = s,
                       !.state.hasError = FALSE]
  IN IF w2.state.isCinematicModeEnabled
     THEN PlayCinematic(w2, s, isString)
     ELSE PlaySimple(w2, s)

\* handleError(error, 'playback')
handleError(w) ==
  [w EXCEPT !.state.hasError = TRUE,
            !.state.statusMessage = "Error",
            !.state.isActive = FALSE,
            !.state.isGenerating = FALSE,
            !.state.isPlaying = FALSE]

\* a finally block of play() that clears isActive only
PlayFinallyActiveOnly(w, s) ==
  [w EXCEPT !.state.isActive = FALSE,
            !.ePc[s] = "returned"]

\* the finally block of play()
PlayFinally(w, s) ==
  [w EXCEPT !.state.isActive = FALSE,
            !.state.isGenerating = FALSE,
            !.state.isPlaying = FALSE,
            !.state.currentPhase = "null",
            !.ePc[s] = "returned"]

\* ---------------------------------------------------------------- actions
\* A caller invokes CinematicExperienceOrchestrator.play(storyText).
Play ==
  /\ nSessions < MaxSessions
  /\ nSessions' = nSessions + 1
  /\ \E isString \in BOOLEAN :
       Becomes(ExperiencePlay(World, nSessions + 1, isString))

\* The first such call.
PlayFirst ==
  /\ nSessions = 0
  /\ Play

\* A caller invokes CinematicExperienceOrchestrator.stop().
Stop ==
  /\ nSessions > 0
  /\ UNCHANGED nSessions
  /\ Becomes(ExperienceStop(World))

\* A caller invokes CinematicExperienceOrchestrator.cancel().
Cancel ==
  /\ nSessions > 0
  /\ UNCHANGED nSessions
  /\ Becomes(ExperienceStop(World))

\* The provider call the producer awaits settles.
GenerateDone(s) ==
  /\ producer[s].pc = "awaitTTS"
  /\ UNCHANGED nSessions
  /\ \E outcome \in GenOutcomes(producer[s].provider, elevenLabsKey) :
       Becomes(NextChunk(ChunkResult(World, s, outcome), s))

\* The playback the consumer awaits settles.
PlayDone(s) ==
  /\ consumer[s].pc = "playing"
  /\ UNCHANGED nSessions
  /\ \E outcome \in PlayOutcomes(producer[s].provider) :
       Becomes(playbackLoop(ChunkPlayed(World, s, outcome), s))

\* The consumer's sleep(100) timer fires.
Wake(s) ==
  /\ consumer[s].pc = "sleeping"
  /\ UNCHANGED nSessions
  /\ Becomes(playbackLoop(World, s))

\* CinematicVoiceOrchestrator.playCinematic resumes after consumer.play()
\* and generationPromise, returns, and CinematicExperienceOrchestrator
\* .playCinematic sets the success status.
CinematicReturn(s) ==
  /\ ePc[s] = "awaitCinematic"
  /\ consumer[s].pc = "exited"
  /\ producer[s].pc = "done"
  /\ UNCHANGED nSessions
  /\ Becomes([World EXCEPT !.state.statusMessage = "Cinematic scene finished",
                           !.state.currentPhase = "null",
                           !.ePc[s] = "awaitFinally"])

\* playSimple's timer fires: it sets the finished status and returns.
SimpleTimeout(s) ==
  /\ ePc[s] = "awaitSimple"
  /\ UNCHANGED nSessions
  /\ Becomes([World EXCEPT !.state.statusMessage = "Playback finished",
                           !.state.currentPhase = "null",
                           !.state.isPlaying = FALSE,
                           !.ePc[s] = "awaitFinally"])

\* play() resumes after playCinematic or playSimple: its finally block.
PlayReturn(s) ==
  /\ ePc[s] = "awaitFinally"
  /\ UNCHANGED nSessions
  /\ Becomes(PlayFinally(World, s))

\* play() resumes with the error playCinematic rethrew: its catch block,
\* then its finally block.
PlayCatch(s) ==
  /\ ePc[s] = "awaitThrown"
  /\ UNCHANGED nSessions
  /\ Becomes(PlayFinally(handleError(World), s))

Next ==
  \/ Play
  \/ Stop
  \/ Cancel
  \/ \E s \in Sessions : GenerateDone(s)
  \/ \E s \in Sessions : PlayDone(s)
  \/ \E s \in Sessions : Wake(s)
  \/ \E s \in Sessions : CinematicReturn(s)
  \/ \E s \in Sessions : SimpleTimeout(s)
  \/ \E s \in Sessions : PlayReturn(s)
  \/ \E s \in Sessions : PlayCatch(s)

Spec == Init /\ [][Next]_vars

\* A single play() call, on longer scripts.
NextSolo ==
  \/ PlayFirst
  \/ Stop
  \/ Cancel
  \/ \E s \in Sessions : GenerateDone(s)
  \/ \E s \in Sessions : PlayDone(s)
  \/ \E s \in Sessions : Wake(s)
  \/ \E s \in Sessions : CinematicReturn(s)
  \/ \E s \in Sessions : SimpleTimeout(s)
  \/ \E s \in Sessions : PlayReturn(s)
  \/ \E s \in Sessions : PlayCatch(s)

SpecSolo == InitSolo /\ [][NextSolo]_vars

\* Every awaited provider call and playback settles in the end, and every
\* sleep(100) timer fires.
Fairness ==
  \A s \in Sessions :
    /\ WF_vars(GenerateDone(s))
    /\ WF_vars(PlayDone(s))
    /\ WF_vars(Wake(s))

FairSolo == Init /\ [][NextSolo]_vars /\ Fairness

\* ------------------------------------------------ TTS engines (normal mode)
\* VoiceController and its engines as one value.
Page == [controller |-> controller, tts |-> tts]

Shows(p) ==
  /\ controller' = p.controller
  /\ tts' = p.tts
  /\ UNCHANGED <<script, elevenLabsKey, nSessions, producer, consumer, voice,
                 ePc, orchestrator, state, hist, parser, textVars>>

Buttons == 1..MaxButtons

\* One speak() call.  pc: where it is suspended; i, n: the chunk it is at
\* and smartSplit's chunk count; stopped: stop() ran on its audio source;
\* cancelled: its engine's cancel() ran while it was pending.
NewCall(engine, button, n) ==
  [engine |-> engine, button |-> button, pc |-> "done", i |-> 0, n |-> n,
   stopped |-> FALSE, cancelled |-> FALSE,
   requestedAfterCancel |-> FALSE, playedAfterCancel |-> FALSE]

Calls(p) == 1..Len(p.tts.calls)

\* WebSpeechTTS.cancel(): speechSynthesis.cancel() drops every utterance;
\* ElevenLabsTTS.cancel(): stops currentSource, if any, and forgets it.
EngineCancel(p, engine) ==
  LET mark(call) ==
        IF call.engine = engine /\ call.pc # "done"
        THEN [call EXCEPT !.cancelled = TRUE] ELSE call
      p1 == [p EXCEPT !.tts.calls = [k \in Calls(p) |-> mark(p.tts.calls[k])]]
      src == p.tts.currentSource
  IN IF engine = "eleven_labs" /\ src # 0
     THEN [p1 EXCEPT !.tts.calls[src].stopped = TRUE,
                     !.tts.currentSource = 0]
     ELSE p1

\* VoiceController.stop(), with no cinematicConsumer
ControllerStop(p) ==
  LET p1 == EngineCancel(EngineCancel(p, "web_speech"), "eleven_labs")
  IN [p1 EXCEPT !.controller.currentButton = 0,
                !.controller.playbackState = "IDLE"]

\* the onEnd callback playNormal passes to speak()
OnEnd(p, k) ==
  IF p.controller.currentButton = p.tts.calls[k].button
  THEN ControllerStop(p) ELSE p

\* ElevenLabsTTS.speak: the loop reaches `await fetch(...)` for chunk i
StartRequest(p, k, i) ==
  [p EXCEPT !.tts.calls[k].pc = "fetch",
            !.tts.calls[k].i = i,
            !.tts.calls[k].requestedAfterCancel =
               @ \/ p.tts.calls[k].cancelled]

\* ElevenLabsTTS.speak: the catch block, or the end of the loop; then onEnd
Finish(p, k) == OnEnd([p EXCEPT !.tts.calls[k].pc = "done"], k)

\* ElevenLabsTTS.speak: the promise that plays the decoded chunk
StartSource(p, k) ==
  [p EXCEPT !.tts.currentSource = k,
            !.tts.calls[k].pc = "play",
            !.tts.calls[k].stopped = FALSE,
            !.tts.calls[k].playedAfterCancel = @ \/ p.tts.calls[k].cancelled]

\* onended of the source of call k, then the loop's next iteration
AfterEnded(p, k) ==
  LET call == p.tts.calls[k]
      p1   == [p EXCEPT !.tts.currentSource = 0]
  IN IF call.i + 1 < call.n THEN StartRequest(p1, k, call.i + 1)
     ELSE Finish(p1, k)

\* engine.speak(text, options, onEnd, ...) of the active engine, up to its
\* first await; hasKey: the engine's apiKey is set
Speak(p, engine, button, n, hasKey) ==
  LET p1 == EngineCancel(p, engine)
      k  == Len(p.tts.calls) + 1
      p2 == [p1 EXCEPT !.tts.calls = Append(@, NewCall(engine, button, n))]
  IN IF engine = "web_speech"
     THEN [p2 EXCEPT !.tts.calls[k].pc = "speaking"]
     ELSE IF ~hasKey THEN OnEnd(p2, k)
     ELSE StartRequest(p2, k, 0)

\* VoiceController.play(element, text, button) and playNormal
ControllerPlay(p, button, n, hasKey) ==
  LET p1 == ControllerStop(p)
      p2 == [p1 EXCEPT !.controller.currentButton = button,
                       !.controller.playbackState = "PLAYING"]
  IN Speak(p2, p2.controller.provider, button, n, hasKey)

\* VoiceController.handleInteraction(element, text, button); only
\* WebSpeechTTS has pause() and resume()
handleInteraction(p, button, n, hasKey) ==
  LET c == p.controller
  IN IF c.currentButton = button
     THEN IF c.playbackState = "PLAYING"
          THEN IF c.provider = "web_speech"
               THEN [p EXCEPT !.tts.paused = TRUE,
                              !.controller.playbackState = "PAUSED"]
               ELSE ControllerStop(p)
          ELSE IF c.playbackState = "PAUSED" /\ c.provider = "web_speech"
          THEN [p EXCEPT !.tts.paused = FALSE,
                         !.controller.playbackState = "PLAYING"]
          ELSE ControllerPlay(p, button, n, hasKey)
     ELSE ControllerPlay(IF c.currentButton # 0 THEN ControllerStop(p) ELSE p,
                         button, n, hasKey)

\* A click on the mic button of a message whose text has n chunks.
Click(button) ==
  \E n \in 1..SpeakChunks :
    LET q == handleInteraction(Page, button, n, elevenLabsKey)
    IN /\ Len(q.tts.calls) <= MaxSpeaks
       /\ Shows(q)

\* VoiceController.setEnabled(enabled)
SetEnabled ==
  \E enabled \in BOOLEAN :
    LET q == IF enabled THEN Page ELSE ControllerStop(Page)
    IN /\ Len(q.tts.calls) <= MaxSpeaks
       /\ Shows(q)

\* VoiceController.setProvider(provider)
SetProvider ==
  \E provider \in Providers :
    LET q == ControllerStop([Page EXCEPT !.controller.provider = provider])
    IN /\ Len(q.tts.calls) <= MaxSpeaks
       /\ Shows(q)

\* The visibilitychange listener VoiceController.init installs; hidden is
\* document.hidden after the change.
VisibilityChange ==
  \E hidden \in {~tts.hidden} :
    LET p1 == [Page EXCEPT !.tts.hidden = hidden]
    IN Shows(IF /\ controller.playbackState = "PLAYING"
                /\ controller.provider = "web_speech"
             THEN [p1 EXCEPT !.tts.paused = hidden]
             ELSE p1)

Pending(k, pc) == k <= Len(tts.calls) /\ tts.calls[k].pc = pc

\* `await fetch(...)` settles: a response that is ok or not, or a rejection.
FetchDone(k) ==
  /\ Pending(k, "fetch")
  /\ \E outcome \in {"ok", "notOk", "reject"} :
       Shows(IF outcome = "ok" THEN [Page EXCEPT !.tts.calls[k].pc = "body"]
             ELSE IF outcome = "notOk"
             THEN [Page EXCEPT !.tts.calls[k].pc = "errorText"]
             ELSE Finish(Page, k))

\* `await response.text()` settles and speak() throws the API error.
ErrorTextDone(k) ==
  /\ Pending(k, "errorText")
  /\ Shows(Finish(Page, k))

\* `await response.arrayBuffer()` settles.
BodyDone(k) ==
  /\ Pending(k, "body")
  /\ \E ok \in BOOLEAN :
       Shows(IF ok THEN [Page EXCEPT !.tts.calls[k].pc = "decode"]
             ELSE Finish(Page, k))

\* `await this.audioContext.decodeAudioData(arrayBuffer)` settles.
DecodeDone(k) ==
  /\ Pending(k, "decode")
  /\ \E ok \in BOOLEAN :
       Shows(IF ok THEN StartSource(Page, k) ELSE Finish(Page, k))

\* The source's ended event: the chunk played to its end, or stop() ended it.
SourceEnded(k) ==
  /\ Pending(k, "play")
  /\ Shows(AfterEnded(Page, k))

\* The utterance's end or error event; a paused speechSynthesis delivers
\* none unless cancel() dropped the utterance.
UtteranceDone(k) ==
  /\ Pending(k, "speaking")
  /\ tts.calls[k].cancelled \/ ~tts.paused
  /\ Shows(Finish(Page, k))

InitController ==
  /\ InitWith({<<>>})
  /\ state = InitialState

NextController ==
  \/ \E button \in Buttons : Click(button)
  \/ SetEnabled
  \/ SetProvider
  \/ VisibilityChange
  \/ \E k \in 1..MaxSpeaks : FetchDone(k)
  \/ \E k \in 1..MaxSpeaks : ErrorTextDone(k)
  \/ \E k \in 1..MaxSpeaks : BodyDone(k)
  \/ \E k \in 1..MaxSpeaks : DecodeDone(k)
  \/ \E k \in 1..MaxSpeaks : SourceEnded(k)
  \/ \E k \in 1..MaxSpeaks : UtteranceDone(k)

\* VoiceController in normal mode, with its engines.
SpecController == InitController /\ [][NextController]_vars

\* ------------------------------------------------------------ parseScript
\* A raw text is a sequence of characters; the ones parseScript tells apart
\* are the double quote, white space and anything else.
Quote == "\""
Space == " "
Chars == {"a", "b", Space, Quote}

Texts == UNION {[1..n -> Chars] : n \in 0..MaxText}

\* TEST 7 of testParseScript, one letter for each sentence:
\* 'He opened his mouth. "" Nothing came out. "" He tried again.'
Test7 == <<"a", Space, Quote, Quote, Space, "b", Space, Quote, Quote, Space, "a">>

\* String.prototype.trim
RECURSIVE TrimStart(_)
TrimStart(text) ==
  IF text # <<>> /\ Head(text) = Space THEN TrimStart(Tail(text)) ELSE text

RECURSIVE TrimEnd(_)
TrimEnd(text) ==
  IF text # <<>> /\ text[Len(text)] = Space
  THEN TrimEnd(SubSeq(text, 1, Len(text) - 1)) ELSE text

Trim(text) == TrimEnd(TrimStart(text))

\* position of the first double quote of text at or after position from
\* (positions count from 1); 0 if there is none
RECURSIVE QuoteFrom(_, _)
QuoteFrom(text, from) ==
  IF from > Len(text) THEN 0
  ELSE IF text[from] = Quote THEN from
  ELSE QuoteFrom(text, from + 1)

Block(type, text) == [type |-> type, text |-> text]

\* a Pushed that keeps the text as it is, white space and all
PushedRaw(out, type, text) == Append(out, Block(type, text))

\* the block parseScript pushes for a piece of text, if its trim() is not ''
Pushed(out, type, text) ==
  IF Trim(text) # <<>> THEN Append(out, Block(type, Trim(text))) ELSE out

\* a loop whose pattern also matches an opening quote that is never closed
RECURSIVE ScanFromOpenDialogue(_, _, _)
ScanFromOpenDialogue(text, lastIndex, out) ==
  LET open  == QuoteFrom(text, lastIndex + 1)
      close == IF open = 0 THEN 0 ELSE QuoteFrom(text, open + 1)
      end   == IF close = 0 THEN Len(text) + 1 ELSE close
  IN IF open = 0
     THEN IF lastIndex < Len(text)
          THEN Pushed(out, "narration", SubSeq(text, lastIndex + 1, Len(text)))
          ELSE out
     ELSE LET out1 == IF open - 1 > lastIndex
                      THEN Pushed(out, "narration",
                                  SubSeq(text, lastIndex + 1, open - 1))
                      ELSE out
              out2 == Pushed(out1, "dialogue", SubSeq(text, open + 1, end - 1))
          IN IF close = 0 THEN out2 ELSE ScanFromOpenDialogue(text, close, out2)

\* parseScript's while loop over /"([^"]*)"/g from lastIndex on (lastIndex
\* counts the characters consumed), then the remaining narration
RECURSIVE ScanFrom(_, _, _)
ScanFrom(text, lastIndex, out) ==
  LET open  == QuoteFrom(text, lastIndex + 1)
      close == IF open = 0 THEN 0 ELSE QuoteFrom(text, open + 1)
  IN IF close = 0
     THEN IF lastIndex < Len(text)
          THEN Pushed(out, "narration", SubSeq(text, lastIndex + 1, Len(text)))
          ELSE out
     ELSE LET out1 == IF open - 1 > lastIndex
                      THEN Pushed(out, "narration",
                                  SubSeq(text, lastIndex + 1, open - 1))
                      ELSE out
              out2 == Pushed(out1, "dialogue", SubSeq(text, open + 1, close - 1))
          IN ScanFrom(text, close, out2)

\* a parseScript that forgets the narration after the last dialogue
RECURSIVE ScanFromNoTail(_, _, _)
ScanFromNoTail(text, lastIndex, out) ==
  LET open  == QuoteFrom(text, lastIndex + 1)
      close == IF open = 0 THEN 0 ELSE QuoteFrom(text, open + 1)
  IN IF close = 0 THEN out
     ELSE LET out1 == IF open - 1 > lastIndex
                      THEN Pushed(out, "narration",
                                  SubSeq(text, lastIndex + 1, open - 1))
                      ELSE out
              out2 == Pushed(out1, "dialogue", SubSeq(text, open + 1, close - 1))
          IN ScanFromNoTail(text, close, out2)

parseScriptNoTail(rawText) ==
  IF rawText = <<>> \/ Trim(rawText) = <<>> THEN <<>>
  ELSE ScanFromNoTail(rawText, 0, <<>>)

\* parseScript(rawText)
parseScript(rawText) ==
  IF rawText = <<>> \/ Trim(rawText) = <<>> THEN <<>>
  ELSE ScanFrom(rawText, 0, <<>>)

\* A caller invokes parseScript(rawText).
ParseScript ==
  /\ parser.pc = "idle"
  /\ parser' = [parser EXCEPT !.pc = "done",
                              !.script = parseScript(parser.rawText)]
  /\ UNCHANGED <<script, elevenLabsKey, nSessions, producer, consumer, voice,
                 ePc, orchestrator, state, hist, controller, tts, textVars>>

InitParser ==
  /\ script = <<>>
  /\ elevenLabsKey = FALSE
  /\ nSessions = 0
  /\ producer = [s \in Sessions |-> NewProducer]
  /\ consumer = [s \in Sessions |-> NewConsumer]
  /\ voice = [s \in Sessions |-> NewVoice]
  /\ ePc = [s \in Sessions |-> "none"]
  /\ orchestrator = 0
  /\ state = InitialState
  /\ hist = [s \in Sessions |-> NewHist]
  /\ controller = NewController
  /\ tts = NewTts
  /\ \E rawText \in Texts \cup {Test7} :
       parser = [rawText |-> rawText, pc |-> "idle", script |-> <<>>]
  /\ NoCalls

NextParser == ParseScript

\* parseScript applied to every raw text of up to MaxText characters.
SpecParser == InitParser /\ [][NextParser]_vars

\* ---------------------------------------------------------- detectSpeakers
\* Names and texts are sequences of characters, as in parseScript.
Tom      == <<"T", "o", "m">>
Amy      == <<"A", "m", "y">>
Narrator == <<"N", "a", "r", "r", "a", "t", "o", "r">>
Null     == <<>>          \* null: no speaker found, no speaker remembered

\* the 'i' flag of the name pattern, for the capitals the names have
Lower(c) ==
  CASE c = "T" -> "t" [] c = "A" -> "a" [] c = "N" -> "n" [] c = "K" -> "k"
    [] c = "Z" -> "z" [] c = "M" -> "m" [] c = "J" -> "j" [] c = "E" -> "e"
    [] c = "R" -> "r" [] c = "H" -> "h" [] c = "V" -> "v" [] c = "O" -> "o"
    [] c = "C" -> "c" [] c = "S" -> "s" [] c = "D" -> "d" [] c = "U" -> "u"
    [] OTHER -> c

\* \w of the name pattern, among the characters of the texts
IsWordChar(c) == c \notin {Space, Quote, ".", ",", "'"}

\* new RegExp(`\\b${name}\\b`, 'gi') matches text at position i (from 1)
MatchesAt(text, name, i) ==
  /\ i + Len(name) - 1 <= Len(text)
  /\ \A k \in 1..Len(name) : Lower(text[i + k - 1]) = Lower(name[k])
  /\ i = 1 \/ ~IsWordChar(text[i - 1])
  /\ i + Len(name) > Len(text) \/ ~IsWordChar(text[i + Len(name)])

SetMax(S) == CHOOSE x \in S : \A y \in S : y <= x

\* match.index of the last match of the name in text (from 0), -1 if none
LastMatch(text, name) ==
  LET at == {i \in 1..Len(text) : MatchesAt(text, name, i)}
  IN IF at = {} THEN -1 ELSE SetMax(at) - 1

\* nearbyText.join(' ')
RECURSIVE Join(_)
Join(texts) ==
  IF texts = <<>> THEN <<>>
  ELSE IF Len(texts) = 1 THEN texts[1]
  ELSE texts[1] \o <<Space>> \o Join(Tail(texts))

TextsOf(blocks) == [k \in 1..Len(blocks) |-> blocks[k].text]

IsNarrationBlock(block) == block.type = "narration"

\* a window of every block before the dialogue, whatever its type
WholeContext(structuredScript, p) ==
  Join(TextsOf(SubSeq(structuredScript, 1, p - 1)))

\* RULE 1: the text of the narration blocks among the (up to) 3 blocks before
\* the block at position p (from 1), in document order
ContextText(structuredScript, p) ==
  LET from == IF p - 3 > 1 THEN p - 3 ELSE 1
  IN Join(TextsOf(SelectSeq(SubSeq(structuredScript, from, p - 1),
                            IsNarrationBlock)))

\* the names of characterList found in contextText with the index of their
\* last match, in the order of the list
RECURSIVE FoundNames(_, _)
FoundNames(characterList, contextText) ==
  IF characterList = <<>> THEN <<>>
  ELSE LET name == Head(characterList)
           index == LastMatch(contextText, name)
       IN (IF index >= 0 THEN <<[name |-> name, index |-> index]>> ELSE <<>>)
          \o FoundNames(Tail(characterList), contextText)

\* the name found first in the order of the list
Listed(foundNames) == foundNames[1].name

\* RULE 2: foundNames.sort((a, b) => b.index - a.index)[0].name; the sort is
\* stable, so of two names at the same index the one listed first stays first
Closest(foundNames) ==
  LET k == CHOOSE k \in 1..Len(foundNames) :
             /\ \A j \in 1..Len(foundNames) :
                  foundNames[j].index <= foundNames[k].index
             /\ \A j \in 1..(k - 1) : foundNames[j].index < foundNames[k].index
  IN foundNames[k].name

\* a resolver without memory
Forgetful(detectedSpeaker, lastSpeaker) ==
  IF detectedSpeaker # Null THEN detectedSpeaker ELSE Narrator

\* a resolver whose last resort is a speaker nobody listed
ResolvedUnknown(detectedSpeaker, lastSpeaker) ==
  IF detectedSpeaker # Null THEN detectedSpeaker
  ELSE IF lastSpeaker # Null THEN lastSpeaker
  ELSE <<"U", "n", "k", "n", "o", "w", "n">>

\* RULE 3 and RULE 4: the last speaker, then Narrator
Resolved(detectedSpeaker, lastSpeaker) ==
  IF detectedSpeaker # Null THEN detectedSpeaker
  ELSE IF lastSpeaker # Null THEN lastSpeaker
  ELSE Narrator

WithSpeaker(block, speaker) ==
  [type |-> block.type, text |-> block.text, speaker |-> speaker]

\* the for loop of detectSpeakers from position p (from 1) on
RECURSIVE DetectFrom(_, _, _, _, _)
DetectFrom(structuredScript, characterList, p, lastSpeaker, result) ==
  IF p > Len(structuredScript) THEN result
  ELSE LET block == structuredScript[p]
       IN IF block.type = "narration"
          THEN DetectFrom(structuredScript, characterList, p + 1, lastSpeaker,
                          Append(result, block))
          ELSE LET foundNames ==
                     FoundNames(characterList, ContextText(structuredScript, p))
                   found == IF foundNames # <<>> THEN Closest(foundNames)
                            ELSE Null
                   detectedSpeaker == Resolved(found, lastSpeaker)
               IN DetectFrom(structuredScript, characterList, p + 1,
                             detectedSpeaker,
                             Append(result, WithSpeaker(block, detectedSpeaker)))

\* a detectSpeakers that returns the script as it is when no character is given
detectSpeakersAsIs(structuredScript, characterList) ==
  IF Len(characterList) = 0 THEN structuredScript
  ELSE DetectFrom(structuredScript, characterList, 1, Null, <<>>)

\* detectSpeakers(structuredScript, characterList)
detectSpeakers(structuredScript, characterList) ==
  IF Len(characterList) = 0
  THEN [k \in 1..Len(structuredScript) |->
          IF structuredScript[k].type = "dialogue"
          THEN WithSpeaker(structuredScript[k], Narrator)
          ELSE structuredScript[k]]
  ELSE DetectFrom(structuredScript, characterList, 1, Null, <<>>)

\* the texts of the blocks detectSpeakers is given
Txt(words) == Join(words)
NarrationTexts ==
  { Tom,                                            \* "Tom"
    <<"a", "m", "y">>,                              \* "amy"
    Txt(<<Amy, <<"m", "e", "t">>, Tom>>),           \* "Amy met Tom"
    <<"T", "o", "m", "m", "y">> }                   \* "Tommy"
DialogueTexts == { Txt(<<<<"H", "i">>, Tom>>) }     \* "Hi Tom"

ScriptBlocks ==
  {Block("narration", text) : text \in NarrationTexts}
    \cup {Block("dialogue", text) : text \in DialogueTexts}

StructuredScripts == UNION {[1..n -> ScriptBlocks] : n \in 0..MaxScript}

CharacterLists == {<<>>, <<Tom>>, <<Amy>>, <<Tom, Amy>>, <<Amy, Tom>>}

\* the audio pipeline and the controller at rest
AtRest ==
  /\ script = <<>>
  /\ elevenLabsKey = FALSE
  /\ nSessions = 0
  /\ producer = [s \in Sessions |-> NewProducer]
  /\ consumer = [s \in Sessions |-> NewConsumer]
  /\ voice = [s \in Sessions |-> NewVoice]
  /\ ePc = [s \in Sessions |-> "none"]
  /\ orchestrator = 0
  /\ state = InitialState
  /\ hist = [s \in Sessions |-> NewHist]
  /\ controller = NewController
  /\ tts = NewTts
  /\ parser = [rawText |-> <<>>, pc |-> "idle", script |-> <<>>]

playerVars == <<script, elevenLabsKey, nSessions, producer, consumer, voice,
                ePc, orchestrator, state, hist, controller, tts, parser>>

\* A caller invokes detectSpeakers(structuredScript, characterList).
DetectSpeakers ==
  /\ resolver.pc = "idle"
  /\ resolver' = [resolver EXCEPT
       !.pc = "done",
       !.result = detectSpeakers(resolver.structuredScript,
                                 resolver.characterList)]
  /\ UNCHANGED <<playerVars, splitter, assigner, caster, pipeline, extractor>>

InitResolver ==
  /\ AtRest
  /\ splitter = NoCall
  /\ \E structuredScript \in StructuredScripts, characterList \in CharacterLists :
       resolver = [structuredScript |-> structuredScript,
                   characterList |-> characterList,
                   pc |-> "idle", result |-> <<>>]
  /\ assigner = NoCall
  /\ caster = NoCall
  /\ pipeline = NoCall
  /\ extractor = NoCall

NextResolver == DetectSpeakers

\* detectSpeakers applied to every script of up to MaxScript blocks.
SpecResolver == InitResolver /\ [][NextResolver]_vars

\* ------------------------------------------------------------ assignVoices
\* getVoicePools(provider)
VoicePools ==
  [male     |-> <<"male_voice_1", "male_voice_2", "male_voice_3">>,
   female   |-> <<"female_voice_1", "female_voice_2", "female_voice_3">>,
   neutral  |-> <<"neutral_voice_1", "neutral_voice_2">>,
   narrator |-> "narrator_voice",
   fallback |-> "default_voice"]

NoVoice == ""             \* null: no voice assigned, no preferred voice

\* pool[index % pool.length]
Cycled(pool, index) == pool[(index % Len(pool)) + 1]

\* A character registry is the sequence of its entries in the order of
\* Object.keys, the order in which the names were registered.
Entry(name, gender, v) == [name |-> name, gender |-> gender, voice |-> v]

\* the forEach of assignVoices from the k-th key on, with the three counters
RECURSIVE AssignFrom(_, _, _, _, _, _, _)
AssignFrom(registry, voicePools, preferredVoiceURI, k, maleIndex, femaleIndex, neutralIndex) ==
  IF k > Len(registry) THEN registry
  ELSE LET char == registry[k]
           With(gender, v) ==
             [registry EXCEPT ![k] = Entry(char.name, gender, v)]
       IN IF char.name = Narrator
          THEN AssignFrom(
                 With(char.gender,
                      IF preferredVoiceURI # NoVoice THEN preferredVoiceURI
                      ELSE voicePools.narrator),
                 voicePools, preferredVoiceURI, k + 1,
                 maleIndex, femaleIndex, neutralIndex)
          ELSE IF char.gender = "male"
          THEN AssignFrom(
                 With("male", Cycled(voicePools.male, maleIndex)),
                 voicePools, preferredVoiceURI, k + 1,
                 maleIndex + 1, femaleIndex, neutralIndex)
          ELSE IF char.gender = "female"
          THEN AssignFrom(
                 With("female", Cycled(voicePools.female, femaleIndex)),
                 voicePools, preferredVoiceURI, k + 1,
                 maleIndex, femaleIndex + 1, neutralIndex)
          ELSE IF char.gender = "neutral"
          THEN AssignFrom(
                 With("neutral", Cycled(voicePools.neutral, neutralIndex)),
                 voicePools, preferredVoiceURI, k + 1,
                 maleIndex, femaleIndex, neutralIndex + 1)
          ELSE \* default: unknown
               IF neutralIndex % 2 = 0
               THEN AssignFrom(
                      With("male?", Cycled(voicePools.male, maleIndex)),
                      voicePools, preferredVoiceURI, k + 1,
                      maleIndex + 1, femaleIndex, neutralIndex + 1)
               ELSE AssignFrom(
                      With("female?", Cycled(voicePools.female, femaleIndex)),
                      voicePools, preferredVoiceURI, k + 1,
                      maleIndex, femaleIndex + 1, neutralIndex + 1)

\* assignVoices(characterRegistry, voicePools, preferredVoiceURI)
assignVoices(characterRegistry, voicePools, preferredVoiceURI) ==
  AssignFrom(characterRegistry, voicePools, preferredVoiceURI, 1, 0, 0, 0)

\* names for the characters of a registry, all different
Kai   == <<"K", "a", "i">>
Alex  == <<"A", "l", "e", "x">>
Zed   == <<"Z", "e", "d">>
Mira  == <<"M", "i", "r", "a">>
Jack  == <<"J", "a", "c", "k">>
Eden  == <<"E", "d", "e", "n">>
CastNames == <<Tom, Amy, Kai, Zed, Jack, Mira, Eden, Alex>>

Genders == {"male", "female", "neutral", "unknown"}

\* the registry with the Narrator entered before position at (0: no Narrator)
WithNarrator(registry, at) ==
  IF at = 0 THEN registry
  ELSE SubSeq(registry, 1, at - 1) \o <<Entry(Narrator, "neutral", NoVoice)>>
       \o SubSeq(registry, at, Len(registry))

\* registries of up to MaxCast characters of any gender, no voice assigned yet,
\* with or without the Narrator
Registries ==
  UNION {{WithNarrator([k \in 1..n |-> Entry(CastNames[k], genders[k], NoVoice)],
                       at) :
            genders \in [1..n -> Genders], at \in 0..(n + 1)} :
         n \in 0..MaxCast}

PreferredVoices == {NoVoice, "custom_voice"}

\* A caller invokes assignVoices(characterRegistry, voicePools, preferredVoiceURI).
AssignVoices ==
  /\ assigner.pc = "idle"
  /\ assigner' = [assigner EXCEPT
       !.pc = "done",
       !.result = assignVoices(assigner.characterRegistry, VoicePools,
                               assigner.preferredVoiceURI)]
  /\ UNCHANGED <<playerVars, splitter, resolver, caster, pipeline, extractor>>

InitAssigner ==
  /\ AtRest
  /\ splitter = NoCall
  /\ resolver = NoCall
  /\ \E characterRegistry \in Registries, preferredVoiceURI \in PreferredVoices :
       assigner = [characterRegistry |-> characterRegistry,
                   preferredVoiceURI |-> preferredVoiceURI,
                   pc |-> "idle", result |-> <<>>]
  /\ caster = NoCall
  /\ pipeline = NoCall
  /\ extractor = NoCall

NextAssigner == AssignVoices

\* assignVoices applied to every registry of up to MaxCast characters.
SpecAssigner == InitAssigner /\ [][NextAssigner]_vars

\* ------------------------------------------------------------ detectGender
Riley == <<"R", "i", "l", "e", "y">>

\* NAME_DATASETS, for the names the characters of the model have: Alex is
\* listed as male and as unisex, Riley as female and as unisex
NAME_DATASETS ==
  [male   |-> {Tom, Jack, Alex},
   female |-> {Amy, Riley},
   unisex |-> {Alex, Kai, Eden, Riley}]

\* String.prototype.toLowerCase
ToLower(text) == [i \in 1..Len(text) |-> Lower(text[i])]

\* String.prototype.includes
Includes(text, part) ==
  \E i \in 0..(Len(text) - Len(part)) : SubSeq(text, i + 1, i + Len(part)) = part

\* String.prototype.endsWith
EndsWith(text, part) ==
  /\ Len(part) <= Len(text)
  /\ SubSeq(text, Len(text) - Len(part) + 1, Len(text)) = part

\* text.split(separators+), without the empty pieces (which are no sentence
\* that names a character and no pronoun)
RECURSIVE Split(_, _, _)
Split(text, separators, piece) ==
  IF text = <<>> THEN (IF piece = <<>> THEN <<>> ELSE <<piece>>)
  ELSE IF Head(text) \in separators
       THEN (IF piece = <<>> THEN <<>> ELSE <<piece>>)
            \o Split(Tail(text), separators, <<>>)
       ELSE Split(Tail(text), separators, Append(piece, Head(text)))

\* PRIORITY 1: the first element of the profile (lower-cased text of the
\* elements the bio selectors find) that asserts a gender; "" if none does
RECURSIVE FromProfile(_, _)
FromProfile(elements, lowerName) ==
  IF elements = <<>> THEN ""
  ELSE LET text == Head(elements)
           Says(what) == Includes(text, <<Space>> \o lowerName \o what)
       IN IF Says(<<" ", "i", "s", " ", "a", " ", "m", "a", "l", "e">>) \/ Says(<<" ", "i", "s", " ", "a", " ", "m", "a", "n">>) THEN "male"
          ELSE IF Says(<<" ", "i", "s", " ", "a", " ", "f", "e", "m", "a", "l", "e">>) \/ Says(<<" ", "i", "s", " ", "a", " ", "w", "o", "m", "a", "n">>) THEN "female"
          ELSE FromProfile(Tail(elements), lowerName)

HePronouns == {<<"h", "e">>, <<"h", "i", "m">>, <<"h", "i", "s">>, <<"h", "i", "m", "s", "e", "l", "f">>}
ShePronouns == {<<"s", "h", "e">>, <<"h", "e", "r">>, <<"h", "e", "r", "s">>, <<"h", "e", "r", "s", "e", "l", "f">>}

\* how many words of the set the chunks that mention the name hold
RECURSIVE Score(_, _, _)
Score(chunks, lowerName, pronouns) ==
  IF chunks = <<>> THEN 0
  ELSE (IF Includes(Head(chunks), lowerName)
        THEN Len(SelectSeq(Split(Head(chunks), {Space}, <<>>),
                           LAMBDA w : w \in pronouns))
        ELSE 0)
       + Score(Tail(chunks), lowerName, pronouns)

\* PRIORITY 3: pronoun analysis; "" if the text decides nothing
FromPronouns(contextText, lowerName) ==
  IF contextText = <<>> THEN ""
  ELSE LET chunks == Split(ToLower(contextText), {".", "!", "?"}, <<>>)
           heScore == Score(chunks, lowerName, HePronouns)
           sheScore == Score(chunks, lowerName, ShePronouns)
       IN IF heScore > sheScore THEN "male"
          ELSE IF sheScore > heScore THEN "female"
          ELSE ""

\* detectGender(name, contextText), on a page whose profile elements hold the
\* texts profile
detectGender(name, contextText, profile) ==
  LET lowerName == ToLower(name)
  IN IF name = Narrator THEN "neutral"
     ELSE IF FromProfile(profile, lowerName) # ""
     THEN FromProfile(profile, lowerName)
     ELSE IF name \in NAME_DATASETS.male THEN "male"
     ELSE IF name \in NAME_DATASETS.female THEN "female"
     ELSE IF name \in NAME_DATASETS.unisex THEN "neutral"
     ELSE IF FromPronouns(contextText, lowerName) # ""
     THEN FromPronouns(contextText, lowerName)
     ELSE IF /\ EndsWith(lowerName, <<"a">>)
             /\ lowerName \notin {<<"j", "o", "s", "h", "u", "a">>, <<"l", "u", "c", "a">>, <<"e", "z", "r", "a">>, <<"e", "l", "i", "j", "a">>}
     THEN "female"
     ELSE "unknown"

\* ---------------------------------- buildCharacterRegistry, attachVoices
\* the position of the name's entry in the registry, 0 if it has none
KeyOf(registry, name) ==
  IF \E k \in 1..Len(registry) : registry[k].name = name
  THEN CHOOSE k \in 1..Len(registry) : registry[k].name = name
  ELSE 0

\* characterList after buildCharacterRegistry: 'Narrator' pushed if missing
WithNarratorPushed(characterList) ==
  IF \E k \in 1..Len(characterList) : characterList[k] = Narrator
  THEN characterList
  ELSE Append(characterList, Narrator)

\* the forEach of buildCharacterRegistry: registry[name] = { gender, voice }
RECURSIVE RegisterFrom(_, _, _, _)
RegisterFrom(characterList, contextText, profile, registry) ==
  IF characterList = <<>> THEN registry
  ELSE LET name == Head(characterList)
           char == Entry(name, detectGender(name, contextText, profile), NoVoice)
           k == KeyOf(registry, name)
       IN RegisterFrom(Tail(characterList), contextText, profile,
                       IF k = 0 THEN Append(registry, char)
                       ELSE [registry EXCEPT ![k] = char])

\* buildCharacterRegistry(characterList, contextText): the registry returned
buildCharacterRegistry(characterList, contextText, profile) ==
  RegisterFrom(WithNarratorPushed(characterList), contextText, profile, <<>>)

WithVoice(block, v) ==
  [x \in DOMAIN block \cup {"voice"} |-> IF x = "voice" THEN v ELSE block[x]]

\* characterRegistry[name]?.voice || otherwise
VoiceOr(characterRegistry, name, otherwise) ==
  LET k == KeyOf(characterRegistry, name)
  IN IF k # 0 /\ characterRegistry[k].voice # NoVoice
     THEN characterRegistry[k].voice
     ELSE otherwise

\* an attachVoices that gives a dialogue the Narrator's voice when its
\* speaker has no entry
attachVoicesNarratorFallback(structuredScript, characterRegistry) ==
  [i \in 1..Len(structuredScript) |->
     WithVoice(structuredScript[i],
               VoiceOr(characterRegistry, Narrator, "narrator_voice"))]

\* attachVoices(structuredScript, characterRegistry)
attachVoices(structuredScript, characterRegistry) ==
  [i \in 1..Len(structuredScript) |->
     LET block == structuredScript[i]
     IN IF block.type = "narration"
        THEN WithVoice(block,
                       VoiceOr(characterRegistry, Narrator, "narrator_voice"))
        ELSE IF block.type = "dialogue"
        THEN LET speaker == IF "speaker" \in DOMAIN block /\ block.speaker # Null
                            THEN block.speaker ELSE Narrator
             IN WithVoice(block,
                          VoiceOr(characterRegistry, speaker, "default_voice"))
        ELSE block]

\* prepareVoiceCasting(structuredScript, characterList, contextText, provider,
\* preferredVoiceURI): what it returns, and the list as it leaves it
prepareVoiceCasting(structuredScript, characterList, contextText, profile, preferredVoiceURI) ==
  LET characterRegistry ==
        assignVoices(buildCharacterRegistry(characterList, contextText, profile),
                     VoicePools, preferredVoiceURI)
  IN [script |-> attachVoices(structuredScript, characterRegistry),
      registry |-> characterRegistry,
      characterList |-> WithNarratorPushed(characterList)]

\* the arguments of prepareVoiceCasting
CasterNames == {Tom, Amy, Kai, Alex, Zed, Mira, Narrator}
CasterLists == UNION {[1..n -> CasterNames] : n \in 0..MaxNames}

CasterBlocks ==
  { Block("narration", <<"T", "o", "m", " ", "r", "a", "n", ".">>),
    WithSpeaker(Block("dialogue", <<"H", "i">>), Tom),
    WithSpeaker(Block("dialogue", <<"H", "i">>), Kai) }
CasterScripts == UNION {[1..n -> CasterBlocks] : n \in 0..MaxLines}

ContextTexts == {<<>>, <<"Z", "e", "d", " ", "h", "i", "t", " ", "h", "e", "r", ".", " ", "H", "e", " ", "r", "a", "n", ".">>}
Profiles == {<<>>, <<<<" ", "k", "a", "i", " ", "i", "s", " ", "a", " ", "w", "o", "m", "a", "n">>>>}

\* A caller invokes prepareVoiceCasting(...).
PrepareVoiceCasting ==
  /\ caster.pc = "idle"
  /\ caster' = [caster EXCEPT
       !.pc = "done",
       !.result = prepareVoiceCasting(caster.structuredScript,
                                      caster.characterList, caster.contextText,
                                      caster.profile, caster.preferredVoiceURI)]
  /\ UNCHANGED <<playerVars, splitter, resolver, assigner, pipeline, extractor>>

InitCaster ==
  /\ AtRest
  /\ splitter = NoCall
  /\ resolver = NoCall
  /\ assigner = NoCall
  /\ \E structuredScript \in CasterScripts, characterList \in CasterLists,
        contextText \in ContextTexts, profile \in Profiles,
        preferredVoiceURI \in PreferredVoices :
       caster = [structuredScript |-> structuredScript,
                 characterList |-> characterList,
                 contextText |-> contextText,
                 profile |-> profile,
                 preferredVoiceURI |-> preferredVoiceURI,
                 pc |-> "idle", result |-> <<>>]
  /\ pipeline = NoCall
  /\ extractor = NoCall

NextCaster == PrepareVoiceCasting

\* prepareVoiceCasting applied to lists of up to MaxNames names and scripts of
\* up to MaxLines blocks.
SpecCaster == InitCaster /\ [][NextCaster]_vars

\* ----------------------------------------------------- parseScriptComplete
\* parseScriptComplete(rawText, characterList, provider, preferredVoiceURI)
\* with a character list given: what it returns, and the list as it leaves it
parseScriptComplete(rawText, characterList, profile, preferredVoiceURI) ==
  LET structuredScript == parseScript(rawText)
      scriptWithSpeakers == detectSpeakers(structuredScript, characterList)
  IN prepareVoiceCasting(scriptWithSpeakers, characterList, rawText, profile,
                         preferredVoiceURI)

\* the texts the pipeline is given: words and quoted spans with single
\* spaces between them
Pieces == {Tom, Amy, <<"n", "a", "r", "r", "a", "t", "o", "r">>, <<Quote>> \o <<"H", "i">> \o <<Quote>>}
PipelineTexts ==
  {Join(pieces) : pieces \in UNION {[1..n -> Pieces] : n \in 0..MaxPieces}}

\* --------------------------------------------------- extractCharacterNames
\* [A-Z] and [a-zA-Z], among the characters of the texts
IsUpperChar(c) == Lower(c) # c
IsLetterChar(c) == c \notin {Space, Quote, ".", ",", "'", "!", "?"}

\* text.split(','): every piece, the empty ones too
RECURSIVE SplitAll(_, _, _)
SplitAll(text, separator, piece) ==
  IF text = <<>> THEN <<piece>>
  ELSE IF Head(text) = separator
       THEN <<piece>> \o SplitAll(Tail(text), separator, <<>>)
       ELSE SplitAll(Tail(text), separator, Append(piece, Head(text)))

\* /^[A-Z][a-zA-Z]+$/
IsCapitalized(name) ==
  /\ Len(name) >= 2
  /\ IsUpperChar(name[1])
  /\ \A i \in 1..Len(name) : IsLetterChar(name[i])

\* the valid names of an element whose text is a list of names, <<>> if the
\* text is no such list
ValidNames(el) ==
  LET text == Trim(el.text)
      parts == LET raw == SplitAll(text, ",", <<>>)
               IN [k \in 1..Len(raw) |-> Trim(raw[k])]
      validNames == SelectSeq(parts, LAMBDA q : IsCapitalized(q) /\ Len(q) > 2)
  IN IF /\ text # <<>>
        /\ \E i \in 1..Len(text) : text[i] = ","
        /\ \E i \in 1..Len(text) : IsUpperChar(text[i]) /\ IsLetterChar(text[i])
        /\ Len(validNames) > 0
        /\ 2 * Len(validNames) >= Len(parts)
     THEN validNames
     ELSE <<>>

\* candidates.reduce((a, b) => a.length > b.length ? a : b) over the lists of
\* the elements from the k-th on
RECURSIVE BestList(_, _, _)
BestList(elements, k, best) ==
  IF k > Len(elements) THEN best
  ELSE LET validNames == ValidNames(elements[k])
       IN BestList(elements, k + 1,
                   IF validNames = <<>> THEN best
                   ELSE IF Len(best) > Len(validNames) THEN best
                   ELSE validNames)

Generics == {<<"C", "h", "a", "t">>, <<"S", "e", "t", "t", "i", "n", "g", "s">>, <<"D", "e", "s", "c", "r", "i", "p", "t", "i", "o", "n">>, <<"J", "a", "n", "i", "t", "o", "r">>,
             <<"D", "a", "s", "h", "b", "o", "a", "r", "d">>, <<"C", "h", "a", "r", "a", "c", "t", "e", "r", "s">>}

\* the name the main header gives, as a set: the first h1 or h2 of the page
HeaderNames(elements) ==
  LET headers == SelectSeq(elements, LAMBDA el : el.tag \in {"h1", "h2"})
  IN IF headers = <<>> THEN {}
     ELSE LET name == Trim(headers[1].text)
              cleanName == IF EndsWith(ToLower(name), <<"'", "s">>)
                           THEN SubSeq(name, 1, Len(name) - 2) ELSE name
          IN IF /\ IsCapitalized(cleanName)
                /\ Len(cleanName) > 2
                /\ Len(cleanName) < 20
                /\ \A g \in Generics : ~Includes(cleanName, g)
             THEN {cleanName}
             ELSE {}

\* PART 1: the names found in the page
DomNames(elements) ==
  LET bestList == BestList(elements, 1, <<>>)
  IN {bestList[k] : k \in 1..Len(bestList)} \cup HeaderNames(elements)

\* fallbackText.replace(/["']/g, ' ')
CleanText(text) ==
  [i \in 1..Len(text) |-> IF text[i] \in {Quote, "'"} THEN Space ELSE text[i]]

\* [a-zA-Z']
IsTokenChar(c) == IsLetterChar(c) \/ c = "'"

\* cleanText.split(/[^a-zA-Z']+/).filter(w => w): where the words start and
\* where they end
WordStarts(text) ==
  {i \in 1..Len(text) :
     IsTokenChar(text[i]) /\ (i = 1 \/ ~IsTokenChar(text[i - 1]))}
WordEnds(text) ==
  {i \in 1..Len(text) :
     IsTokenChar(text[i]) /\ (i = Len(text) \/ ~IsTokenChar(text[i + 1]))}
\* the stop words, for the words the texts of the model have
StopWords == {<<"T", "h", "e">>, <<"S", "h", "e">>, <<"A", "n", "d">>, <<"S", "a", "i", "d">>, <<"M", "r", "s">>}

\* the candidate a word gives (steps A, B and C), Null if it gives none
Candidate(word) ==
  IF \/ Len(word) < 3
     \/ ~IsUpperChar(word[1])
     \/ \A i \in 1..Len(word) : ~IsLetterChar(word[i]) \/ IsUpperChar(word[i])
  THEN Null
  ELSE LET cleanWord == IF EndsWith(word, <<"'", "s">>) \/ EndsWith(word, <<"s", "'">>)
                        THEN SubSeq(word, 1, Len(word) - 2) ELSE word
       IN IF Len(cleanWord) < 3 \/ cleanWord \in StopWords THEN Null
          ELSE cleanWord

\* words: the tokens of the text, each with the position where it starts
Words(text) ==
  LET cleanText == CleanText(text)
      starts == WordStarts(cleanText)
      ends == WordEnds(cleanText)
  IN {<<i, SubSeq(cleanText, i,
                  CHOOSE j \in ends : j >= i /\ \A k \in ends : k >= i => j <= k)>> :
        i \in starts}

\* candidateCounts, as a function from its keys to their counts
candidateCounts(text) ==
  LET words == Words(text)
      cleaned == {<<w[1], Candidate(w[2])>> : w \in words}
  IN [name \in {c[2] : c \in cleaned} \ {Null} |->
        Cardinality({c \in cleaned : c[2] = name})]

\* candidateCounts[name], 0 for a name that is no key
CandidateCount(text, name) ==
  LET counts == candidateCounts(text)
  IN IF name \in DOMAIN counts THEN counts[name] ELSE 0

\* the keys of candidateCounts
Candidates(text) == DOMAIN candidateCounts(text)

\* a threshold that takes a text of ShortText characters for short
FrequentOrJustShort(count, length) ==
  count >= 2 \/ (length <= ShortText /\ count >= 1)

\* count >= 2 || (isShortText && count >= 1)
Frequent(count, length) ==
  count >= 2 \/ (length < ShortText /\ count >= 1)

BadNames == {Narrator, <<"V", "o", "i", "c", "e">>, <<"S", "y", "s", "t", "e", "m">>, <<"U", "n", "k", "n", "o", "w", "n">>, <<"E", "v", "e", "r", "y", "o", "n", "e">>,
             <<"S", "o", "m", "e", "o", "n", "e">>, <<"A", "n", "y", "b", "o", "d", "y">>, <<"N", "o", "b", "o", "d", "y">>}

\* extractCharacterNames(fallbackText) on a page with the given elements: the
\* names of finalNames (a sorted array without duplicates) as a set
extractCharacterNames(fallbackText, elements) ==
  LET counts == candidateCounts(fallbackText)
      fromText == IF fallbackText = <<>> THEN {}
                  ELSE {name \in DOMAIN counts :
                          Frequent(counts[name], Len(fallbackText))}
  IN (DomNames(elements) \cup fromText) \ BadNames

\* the texts extractCharacterNames is given: up to MaxWords words with single
\* spaces between them, one of them a long stretch of lower-case letters
Pad == [i \in 1..PadLength |-> "x"]
Vocabulary == {Tom, Amy, <<"V", "o", "i", "c", "e">>, <<"T", "h", "e">>, <<"T", "o", "m", "'", "s">>, <<"T", "O", "M">>, Pad}
FallbackTexts ==
  {Join(words) : words \in UNION {[1..n -> Vocabulary] : n \in 0..MaxWords}}

El(tag, text) == [tag |-> tag, text |-> text]
Pages ==
  { <<>>,
    <<El("h1", <<"V", "o", "i", "c", "e">>)>>,
    <<El("div", <<"Z", "e", "d", ",", " ", "A", "m", "y">>)>>,
    <<El("div", <<"Z", "e", "d", ",", " ", "A", "m", "y">>), El("h2", <<"M", "i", "r", "a", "'", "s">>)>> }

\* A caller invokes extractCharacterNames(fallbackText).
ExtractCharacterNames ==
  /\ extractor.pc = "idle"
  /\ extractor' = [extractor EXCEPT
       !.pc = "done",
       !.result = extractCharacterNames(extractor.fallbackText,
                                        extractor.elements)]
  /\ UNCHANGED <<playerVars, splitter, resolver, assigner, caster, pipeline>>

InitExtractor ==
  /\ AtRest
  /\ splitter = NoCall
  /\ resolver = NoCall
  /\ assigner = NoCall
  /\ caster = NoCall
  /\ pipeline = NoCall
  /\ \E fallbackText \in FallbackTexts, elements \in Pages :
       extractor = [fallbackText |-> fallbackText, elements |-> elements,
                    pc |-> "idle", result |-> {}]

NextExtractor == ExtractCharacterNames

\* extractCharacterNames applied to texts of up to MaxWords words.
SpecExtractor == InitExtractor /\ [][NextExtractor]_vars

\* ------------------------------------- parseScriptComplete without a list
\* the letters in the order of their code units
Letters ==
  <<"A", "B", "C", "D", "E", "F", "G", "H", "I", "J", "K", "L", "M",
    "N", "O", "P", "Q", "R", "S", "T", "U", "V", "W", "X", "Y", "Z",
    "a", "b", "c", "d", "e", "f", "g", "h", "i", "j", "k", "l", "m",
    "n", "o", "p", "q", "r", "s", "t", "u", "v", "w", "x", "y", "z">>

CodeOf(c) == CHOOSE i \in 1..Len(Letters) : Letters[i] = c

\* a < b for two names, as Array.prototype.sort compares strings
NameBefore(a, b) ==
  \E i \in 1..(Len(a) + 1) :
    /\ i <= Len(b)
    /\ SubSeq(a, 1, i - 1) = SubSeq(b, 1, i - 1)
    /\ i > Len(a) \/ CodeOf(a[i]) < CodeOf(b[i])

\* Array.from(characterSet).sort()
RECURSIVE Sorted(_)
Sorted(names) ==
  IF names = {} THEN <<>>
  ELSE LET first == CHOOSE a \in names : \A b \in names \ {a} : NameBefore(a, b)
       IN <<first>> \o Sorted(names \ {first})

\* finalNames of extractCharacterNames: the array it returns
finalNames(fallbackText, elements) ==
  Sorted(extractCharacterNames(fallbackText, elements))

\* if (!characterList) characterList = extractCharacterNames(rawText)
ListOrExtracted(given, characterList, rawText, elements) ==
  IF given THEN characterList ELSE finalNames(rawText, elements)

\* the lists parseScriptComplete is called with: an array of the caller, or
\* none on a page with the given elements
PipelineLists ==
  {[given |-> TRUE, characterList |-> characterList, elements |-> <<>>] :
     characterList \in CharacterLists}
    \cup {[given |-> FALSE, characterList |-> <<>>, elements |-> elements] :
             elements \in Pages}

\* A caller invokes parseScriptComplete with its text, for the first or for
\* the second time, and with its list or with none (listGiven); a list is
\* the caller's array, which the call may change.
ParseScriptComplete ==
  /\ Len(pipeline.results) < 2
  /\ LET characterList == ListOrExtracted(pipeline.listGiven,
                                          pipeline.characterList,
                                          pipeline.rawText, pipeline.elements)
         result == parseScriptComplete(pipeline.rawText, characterList,
                                       pipeline.profile,
                                       pipeline.preferredVoiceURI)
     IN pipeline' = [pipeline EXCEPT
          !.characterList = IF pipeline.listGiven THEN result.characterList
                            ELSE @,
          !.results = Append(@, [script |-> result.script,
                                 registry |-> result.registry])]
  /\ UNCHANGED <<playerVars, splitter, resolver, assigner, caster, extractor>>

InitPipeline ==
  /\ AtRest
  /\ splitter = NoCall
  /\ resolver = NoCall
  /\ assigner = NoCall
  /\ caster = NoCall
  /\ \E rawText \in PipelineTexts, list \in PipelineLists,
        profile \in Profiles, preferredVoiceURI \in PreferredVoices :
       pipeline = [rawText |-> rawText,
                   listGiven |-> list.given,
                   characterList |-> list.characterList,
                   elements |-> list.elements,
                   profile |-> profile,
                   preferredVoiceURI |-> preferredVoiceURI,
                   results |-> <<>>]
  /\ extractor = NoCall

NextPipeline == ParseScriptComplete

\* parseScriptComplete called twice on texts of up to MaxPieces pieces.
SpecPipeline == InitPipeline /\ [][NextPipeline]_vars

\* --------------------------------------------------------------- smartSplit
Newline == "\n"

\* \s, and what trim() removes, among the characters of the texts
IsWhitespace(c) == c \in {Space, Newline}

RECURSIVE trimStart(_)
trimStart(text) ==
  IF text # <<>> /\ IsWhitespace(Head(text)) THEN trimStart(Tail(text)) ELSE text

RECURSIVE trimEnd(_)
trimEnd(text) ==
  IF text # <<>> /\ IsWhitespace(text[Len(text)])
  THEN trimEnd(SubSeq(text, 1, Len(text) - 1)) ELSE text

\* text.trim()
trim(text) == trimEnd(trimStart(text))

\* text.substring(from, to) and text.substring(from), indices from 0
substring(text, from, to) == SubSeq(text, from + 1, to)
substringFrom(text, from) == SubSeq(text, from + 1, Len(text))

\* text.lastIndexOf(s): from 0, -1 if s does not occur
lastIndexOf(text, s) ==
  SetMax({j \in 0..(Len(text) - Len(s)) : SubSeq(text, j + 1, j + Len(s)) = s}
           \cup {-1})

\* the last position of the run of whitespace that starts at position k
\* (positions from 1), k - 1 if no whitespace is there
RECURSIVE RunEnd(_, _)
RunEnd(text, k) ==
  IF k <= Len(text) /\ IsWhitespace(text[k]) THEN RunEnd(text, k + 1) ELSE k - 1

\* the matches of /[.!?]\s+(?=[A-Z])/g in chunk, as the positions (from 1)
\* where they start
SentenceStarts(chunk) ==
  {k \in 1..Len(chunk) :
     /\ chunk[k] \in {".", "!", "?"}
     /\ RunEnd(chunk, k + 1) > k
     /\ RunEnd(chunk, k + 1) < Len(chunk)
     /\ IsUpperChar(chunk[RunEnd(chunk, k + 1) + 1])}

\* the matches of /[,;]\s/g in chunk
PunctStarts(chunk) ==
  {k \in 1..(Len(chunk) - 1) :
     chunk[k] \in {",", ";"} /\ IsWhitespace(chunk[k + 1])}

\* the sentence boundary: after the last occurrence of the text of the last
\* match, if that occurrence starts past half of maxLength; -1 otherwise
SentenceSplit(chunk, maxLength) ==
  IF SentenceStarts(chunk) = {} THEN -1
  ELSE LET k == SetMax(SentenceStarts(chunk))
           last == SubSeq(chunk, k, RunEnd(chunk, k + 1))
           lastSentence == lastIndexOf(chunk, last)
       IN IF 2 * lastSentence > maxLength THEN lastSentence + Len(last) ELSE -1

\* chunk.lastIndexOf(s), -1 if it is before half of maxLength
BreakSplit(chunk, maxLength, s) ==
  LET splitIndex == lastIndexOf(chunk, s)
  IN IF 2 * splitIndex < maxLength THEN -1 ELSE splitIndex

PunctSplit(chunk, maxLength) ==
  IF PunctStarts(chunk) = {} THEN -1
  ELSE LET k == SetMax(PunctStarts(chunk))
           last == SubSeq(chunk, k, k + 1)
           lastPunct == lastIndexOf(chunk, last)
       IN IF 2 * lastPunct > maxLength THEN lastPunct + Len(last) ELSE -1

\* a last resort that splits one character past maxLength where the chunk
\* has no space
LastResortPast(chunk, maxLength) ==
  IF lastIndexOf(chunk, <<Space>>) = -1 THEN maxLength + 1
  ELSE lastIndexOf(chunk, <<Space>>)

\* the last resort: the last space, maxLength if the chunk has none
LastResort(chunk, maxLength) ==
  IF lastIndexOf(chunk, <<Space>>) = -1 THEN maxLength
  ELSE lastIndexOf(chunk, <<Space>>)

\* splitIndex, for the first maxLength characters of what remains
SplitIndex(chunk, maxLength) ==
  IF SentenceSplit(chunk, maxLength) # -1 THEN SentenceSplit(chunk, maxLength)
  ELSE IF BreakSplit(chunk, maxLength, <<Newline, Newline>>) # -1
       THEN BreakSplit(chunk, maxLength, <<Newline, Newline>>)
  ELSE IF BreakSplit(chunk, maxLength, <<Newline>>) # -1
       THEN BreakSplit(chunk, maxLength, <<Newline>>)
  ELSE IF PunctSplit(chunk, maxLength) # -1 THEN PunctSplit(chunk, maxLength)
  ELSE LastResort(chunk, maxLength)

\* a remainder that skips the character at the split
RemainingSkipping(remaining, splitIndex) ==
  trim(substringFrom(remaining, splitIndex + 1))

\* remaining.substring(splitIndex).trim()
Remaining(remaining, splitIndex) == trim(substringFrom(remaining, splitIndex))

\* the while loop of smartSplit, from what remains and the chunks pushed
RECURSIVE SplitFrom(_, _, _)
SplitFrom(remaining, maxLength, chunks) ==
  IF Len(remaining) = 0 THEN chunks
  ELSE IF Len(remaining) <= maxLength THEN Append(chunks, remaining)
  ELSE LET splitIndex == SplitIndex(substring(remaining, 0, maxLength), maxLength)
       IN SplitFrom(Remaining(remaining, splitIndex), maxLength,
                    Append(chunks, trim(substring(remaining, 0, splitIndex))))

\* smartSplit(text, maxLength)
smartSplit(text, maxLength) ==
  IF text = <<>> \/ Len(text) <= maxLength THEN <<text>>
  ELSE SelectSeq(SplitFrom(text, maxLength, <<>>), LAMBDA c : Len(c) > 0)

\* the texts smartSplit is given: up to SplitPieces pieces, one after the other
SplitVocabulary == {<<"a", "a">>, <<Space>>, <<Newline>>, <<".", " ", "T">>, <<",", " ">>}

RECURSIVE Glued(_)
Glued(texts) == IF texts = <<>> THEN <<>> ELSE Head(texts) \o Glued(Tail(texts))

SplitTexts ==
  {Glued(pieces) :
     pieces \in UNION {[1..n -> SplitVocabulary] : n \in 0..SplitPieces}}

\* A caller invokes smartSplit(text, maxLength).
SmartSplit ==
  /\ splitter.pc = "idle"
  /\ splitter' = [splitter EXCEPT
       !.pc = "done",
       !.chunks = smartSplit(splitter.text, splitter.maxLength)]
  /\ UNCHANGED <<playerVars, resolver, assigner, caster, pipeline, extractor>>

InitSplitter ==
  /\ AtRest
  /\ resolver = NoCall
  /\ assigner = NoCall
  /\ caster = NoCall
  /\ pipeline = NoCall
  /\ extractor = NoCall
  /\ \E text \in SplitTexts, maxLength \in 1..MaxLength :
       splitter = [text |-> text, maxLength |-> maxLength,
                   pc |-> "idle", chunks |-> <<>>]

NextSplitter == SmartSplit

\* smartSplit applied to texts of up to SplitPieces pieces with a maxLength
\* of up to MaxLength.
SpecSplitter == InitSplitter /\ [][NextSplitter]_vars

\* ================================================================ claims
\* (blockIndex, chunkIndex) pairs in lexicographic order
PairLeq(a, b) == a[1] < b[1] \/ (a[1] = b[1] /\ a[2] <= b[2])

NonDecreasing(q) == \A i \in 1..(Len(q) - 1) : PairLeq(q[i], q[i + 1])

IsPrefix(a, b) == Len(a) <= Len(b) /\ \A i \in 1..Len(a) : a[i] = b[i]

\* generateScript and play() have both completed and stop() was not called
CompletedUnstopped(s) ==
  /\ producer[s].pc = "done"
  /\ consumer[s].pc = "exited"
  /\ ~hist[s].stopCalled

\* C1: in a run that completes without stop(), the units the consumer played
\* are, item for item, the units the producer appended, in lexicographically
\* non-decreasing (blockIndex, chunkIndex) order; and until then the played
\* units are a prefix of the appended ones.
C1_Ordering ==
  \A s \in Sessions :
    /\ ~hist[s].stopCalled => IsPrefix(hist[s].played, hist[s].appended)
    /\ CompletedUnstopped(s) =>
         /\ hist[s].played = hist[s].appended
         /\ NonDecreasing(hist[s].played)

\* a completed run over two blocks in which a chunk in the middle was lost
C1_Witness ==
  \E s \in Sessions :
    /\ CompletedUnstopped(s)
    /\ hist[s].played = << <<0, 0>>, <<0, 2>>, <<1, 0>> >>

\* what the last pass of the loop head read, against the claim's condition
LoopExited(s) == consumer[s].pc = "exited"

PlayedOut(s) ==
  /\ consumer[s].pc = "exited"
  /\ ~consumer[s].isPlaying
  /\ consumer[s].currentIndex = Len(producer[s].audioQueue)
  /\ hist[s].played = hist[s].appended
  /\ hist[s].playEnd = 1

\* C3: when every provider call and every playback settles and stop() is
\* never called, a consumer that has started eventually leaves its loop with
\* every queued unit played, isPlaying false and onPlayEnd emitted.
C3_Terminates ==
  \A s \in Sessions :
    (consumer[s].pc \in {"playing", "sleeping"})
      ~> (hist[s].stopCalled \/ PlayedOut(s))

\* a consumer that had to poll and to play has ended this way
C3_Witness ==
  \E s \in Sessions :
    /\ PlayedOut(s)
    /\ ~hist[s].stopCalled
    /\ Len(hist[s].played) = 2

\* AudioConsumer.stop() runs in this step on a consumer that is playing
StopsPlayback(s) ==
  /\ consumer[s].isPlaying
  /\ ~consumer[s].isStopped
  /\ consumer'[s].isStopped

C5_Original ==
  \A s \in Sessions : ~hist[s].callAfterStop /\ ~hist[s].pushAfterStop

\* a session that a later play() call has stopped, while that later session
\* is still running
Superseded(s) ==
  /\ s < nSessions
  /\ hist[s].stopCalled
  /\ ePc[nSessions] # "returned"

\* C6 as stated: once a later play() has stopped a session, that session's
\* producer starts no provider call and its consumer plays no unit while the
\* later session runs.
C6_Original ==
  [][\A s \in Sessions :
       (Superseded(s) /\ UNCHANGED nSessions) =>
         /\ hist'[s].played = hist[s].played
         /\ (producer'[s].pc = "awaitTTS" =>
               /\ producer[s].pc = "awaitTTS"
               /\ producer'[s].block = producer[s].block
               /\ producer'[s].chunk = producer[s].chunk)]_vars

\* the idle status snapshot
IsIdle(st) ==
  /\ ~st.isActive
  /\ ~st.isGenerating
  /\ ~st.isPlaying
  /\ st.currentPhase = "null"
  /\ st.currentSessionId = 0
  /\ st.statusMessage = "Ready"

\* C7 as stated: the snapshot is idle right after stop() or cancel(), and an
\* idle snapshot stays idle until the next play() call.
C7_Original ==
  [][/\ ((Stop \/ Cancel) => IsIdle(state'))
     /\ ((IsIdle(state) /\ UNCHANGED nSessions) => IsIdle(state'))]_vars

\* every (blockIndex, chunkIndex) of the script, in generation order
RECURSIVE ItemsFrom(_, _)
ItemsFrom(b, c) ==
  IF b >= Len(script) THEN <<>>
  ELSE IF c >= script[b + 1] THEN ItemsFrom(b + 1, 0)
  ELSE << <<b, c>> >> \o ItemsFrom(b, c + 1)

Range(q) == {q[i] : i \in 1..Len(q)}

Succeeded(s) ==
  LET Ok(item) == item \notin Range(hist[s].failed)
  IN SelectSeq(ItemsFrom(0, 0), Ok)

\* C8: a chunk whose provider call fails is reported once and not queued,
\* and generation goes on with the next chunk; when generation ends every
\* chunk was either queued or reported, and unless stop() was called the
\* queue holds exactly the chunks that succeeded, in order, which are also
\* the units played when the run completes.
C8_ChunkFailure ==
  \A s \in Sessions :
    /\ hist[s].genErrors = Len(hist[s].failed)
    /\ Range(hist[s].failed) \cap Range(hist[s].appended) = {}
    /\ producer[s].pc = "done" =>
         Len(hist[s].failed) + Len(hist[s].appended) = Len(ItemsFrom(0, 0))
    /\ (producer[s].pc = "done" /\ ~hist[s].stopCalled) =>
         producer[s].audioQueue = Succeeded(s)
    /\ CompletedUnstopped(s) => hist[s].played = Succeeded(s)

\* the 3-chunk block whose chunk 2 failed: 2 units queued, 2 played, 1 report
C8_Witness ==
  \E s \in Sessions :
    /\ script = <<3>>
    /\ CompletedUnstopped(s)
    /\ hist[s].failed = << <<0, 1>> >>
    /\ producer[s].audioQueue = << <<0, 0>>, <<0, 2>> >>
    /\ Len(hist[s].played) = 2
    /\ hist[s].genErrors = 1

\* C9 as stated: after the provider-configuration failure the producer has
\* rejected (it neither awaits another call nor has resolved), isGenerating
\* is cleared and no further call was started.
C9_Original ==
  \A s \in Sessions :
    hist[s].configFailed =>
      /\ producer[s].pc = "rejected"
      /\ ~producer[s].isGenerating
      /\ ~hist[s].callAfterConfig

\* the awaited playback rejects in this step
PlaybackFails(s) == hist'[s].playFailed = hist[s].playFailed + 1

\* C10: when playing a unit fails, onError is called once, currentIndex
\* advances by exactly one, and the loop goes on: unless stop() was called,
\* it plays the next queued unit, or waits for it while the producer is still
\* generating, and leaves only when the stream is exhausted.
C10_PlaybackFailure ==
  [][\A s \in Sessions :
       PlaybackFails(s) =>
         LET next == consumer[s].currentIndex + 1
             q    == producer[s].audioQueue
         IN /\ hist'[s].playErrors = hist[s].playErrors + 1
            /\ consumer'[s].currentIndex = next
            /\ (~consumer[s].isStopped /\ next < Len(q)) =>
                 /\ consumer'[s].pc = "playing"
                 /\ hist'[s].played = Append(hist[s].played, q[next + 1])
            /\ (~consumer[s].isStopped /\ next >= Len(q)
                  /\ producer[s].isGenerating) =>
                 consumer'[s].pc = "sleeping"
            /\ consumer'[s].pc = "exited" =>
                 \/ consumer[s].isStopped
                 \/ (next >= Len(q) /\ ~producer[s].isGenerating)]_vars

\* a unit failed to play and the unit after it is playing
C10_Witness ==
  \E s \in Sessions :
    /\ hist[s].playFailed = 1
    /\ hist[s].playErrors = 1
    /\ consumer[s].currentIndex = 1
    /\ consumer[s].pc = "playing"
    /\ Len(hist[s].played) = 2

\* C11 as stated: once stop() has been called on a session, neither its
\* consumer nor its producer reports an error, and the orchestrator's
\* hasError stays false.
C11_Original ==
  [][\A s \in Sessions :
       consumer[s].isStopped =>
         /\ hist'[s].playErrors = hist[s].playErrors
         /\ hist'[s].genErrors = hist[s].genErrors
         /\ ~state'.hasError]_vars

\* no flag of the snapshot is set
Cleared(st) == ~st.isActive /\ ~st.isGenerating /\ ~st.isPlaying

\* every play() call made so far has returned
AllReturned == \A s \in 1..nSessions : ePc[s] = "returned"

C13_Original ==
  \A s \in Sessions :
    consumer[s].currentIndex <= Len(producer[s].audioQueue)

\* the chunks that come before chunk c of block b in the script
Before(b, c) ==
  {item \in Range(ItemsFrom(0, 0)) : item # <<b, c>> /\ PairLeq(item, <<b, c>>)}

\* C14: whenever the producer awaits the provider call for a chunk, every
\* chunk before it has already been appended to the queue or reported as
\* failed, and (unless stop() cleared them) the queue holds the appended
\* units and generatedCount counts them: nothing is held back until the end
\* of a block or of the script.
C14_Streaming ==
  \A s \in Sessions :
    producer[s].pc = "awaitTTS" =>
      /\ Range(hist[s].appended) \cup Range(hist[s].failed)
           = Before(producer[s].block, producer[s].chunk)
      /\ ~hist[s].stopCalled =>
           /\ producer[s].audioQueue = hist[s].appended
           /\ producer[s].generatedCount = Len(producer[s].audioQueue)

\* the consumer plays the first unit of a block while the producer, still
\* generating, awaits the call for the third chunk of that block
C14_Witness ==
  \E s \in Sessions :
    /\ producer[s].pc = "awaitTTS"
    /\ producer[s].isGenerating
    /\ producer[s].block = 0
    /\ producer[s].chunk = 2
    /\ producer[s].generatedCount = 2
    /\ consumer[s].pc = "playing"
    /\ consumer[s].currentIndex = 0
    /\ hist[s].played = << <<0, 0>> >>

\* C15 as stated: once cancel() has run on ElevenLabsTTS during a speak()
\* call, that call requests no further chunk and plays no further chunk.
C15_Original ==
  \A k \in 1..Len(tts.calls) :
    tts.calls[k].engine = "eleven_labs" =>
      /\ ~tts.calls[k].requestedAfterCancel
      /\ ~tts.calls[k].playedAfterCancel

\* the audio of a speak() call is sounding
Audible(call) ==
  \/ call.pc = "play" /\ ~call.stopped
  \/ call.pc = "speaking" /\ ~call.cancelled

\* C16 as stated: the audio of two messages is never played at once, and
\* once a later message has been started, the speak() call of an earlier
\* one requests no chunk and starts no playback.
C16_Original ==
  [][/\ \A j, k \in 1..Len(tts'.calls) :
          (Audible(tts'.calls[j]) /\ Audible(tts'.calls[k])) => j = k
     /\ \A k \in 1..Len(tts.calls) :
          k < Len(tts.calls) =>
            /\ (tts'.calls[k].pc = "fetch" =>
                  /\ tts.calls[k].pc = "fetch"
                  /\ tts'.calls[k].i = tts.calls[k].i)
            /\ (tts'.calls[k].pc = "play" => tts.calls[k].pc = "play")]_vars

\* ------------------------------------------------- claims about parseScript
\* the positions of the double quotes of text from position i on, in order
RECURSIVE QuotesOf(_, _)
QuotesOf(text, i) ==
  IF i > Len(text) THEN <<>>
  ELSE (IF text[i] = Quote THEN <<i>> ELSE <<>>) \o QuotesOf(text, i + 1)

\* the complete quoted spans of text: the 1st and 2nd quote, the 3rd and 4th...
NSpans(text) == Len(QuotesOf(text, 1)) \div 2
SpanInner(text, k) ==
  SubSeq(text, QuotesOf(text, 1)[2 * k - 1] + 1, QuotesOf(text, 1)[2 * k] - 1)
Unterminated(text) == Len(QuotesOf(text, 1)) % 2 = 1

IsContent(c) == c # Quote /\ c # Space
Strip(text) == SelectSeq(text, IsContent)
Blank(text) == \A i \in 1..Len(text) : text[i] = Space

RECURSIVE Concat(_)
Concat(blocks) ==
  IF blocks = <<>> THEN <<>> ELSE Head(blocks).text \o Concat(Tail(blocks))

IsDialogue(block) == block.type = "dialogue"
IsNarration(block) == block.type = "narration"

\* C17: for every input text, the texts of parseScript's blocks concatenated
\* in order, double quotes and white space ignored, equal the input with
\* double quotes and white space removed: no content is lost, duplicated or
\* reordered.
C17_ContentPreserved ==
  parser.pc = "done" => Strip(Concat(parser.script)) = Strip(parser.rawText)

\* narration, dialogue and narration again, with white space to drop
C17_Witness ==
  /\ parser.pc = "done"
  /\ Len(parser.script) = 3
  /\ IsDialogue(parser.script[2])
  /\ \E i \in 1..Len(parser.rawText) : parser.rawText[i] = Space
  /\ Strip(parser.rawText) # <<>>

\* the trimmed texts of the quoted spans k.. of text that are not blank
RECURSIVE KeptSpans(_, _)
KeptSpans(text, k) ==
  IF k > NSpans(text) THEN <<>>
  ELSE (IF Blank(SpanInner(text, k)) THEN <<>>
        ELSE <<Block("dialogue", Trim(SpanInner(text, k)))>>)
       \o KeptSpans(text, k + 1)

\* C18: parseScript returns the empty list for an empty or white-space-only
\* input; every block it emits has a non-empty text without leading or
\* trailing white space; a quoted span that is empty or white space only
\* yields no block (the dialogue blocks are the non-blank spans, in order).
C18_Blocks ==
  parser.pc = "done" =>
    /\ Blank(parser.rawText) => parser.script = <<>>
    /\ \A i \in 1..Len(parser.script) :
         LET text == parser.script[i].text
         IN text # <<>> /\ text[1] # Space /\ text[Len(text)] # Space
    /\ SelectSeq(parser.script, IsDialogue) = KeptSpans(parser.rawText, 1)

\* a blank quoted span dropped beside a dialogue whose white space is trimmed
C18_Witness ==
  /\ parser.pc = "done"
  /\ \E k \in 1..NSpans(parser.rawText) : Blank(SpanInner(parser.rawText, k))
  /\ \E k \in 1..NSpans(parser.rawText) :
       /\ ~Blank(SpanInner(parser.rawText, k))
       /\ Trim(SpanInner(parser.rawText, k)) # SpanInner(parser.rawText, k)
  /\ Len(parser.script) = 1

\* what follows the last complete quoted span of text
AfterLastSpan(text) ==
  LET n == NSpans(text)
      from == IF n = 0 THEN 1 ELSE QuotesOf(text, 1)[2 * n] + 1
  IN SubSeq(text, from, Len(text))

\* C19: when the input has an unterminated double quote, parseScript
\* completes, and what follows the last complete quoted span, unterminated
\* part included, is one trailing narration block and never dialogue: the
\* dialogue blocks are those of the complete spans alone.
C19_Unterminated ==
  (parser.pc = "done" /\ Unterminated(parser.rawText)) =>
    LET out == parser.script
        rest == AfterLastSpan(parser.rawText)
    IN /\ out # <<>>
       /\ out[Len(out)] = Block("narration", Trim(rest))
       /\ \E i \in 1..Len(rest) : rest[i] = Quote
       /\ Strip(Concat(SubSeq(out, 1, Len(out) - 1)))
            = Strip(SubSeq(parser.rawText, 1, Len(parser.rawText) - Len(rest)))
       /\ SelectSeq(out, IsDialogue) = KeptSpans(parser.rawText, 1)

\* a dialogue, then an opening quote with content and no closing quote
C19_Witness ==
  /\ parser.pc = "done"
  /\ Unterminated(parser.rawText)
  /\ NSpans(parser.rawText) >= 1
  /\ Len(parser.script) >= 2
  /\ IsDialogue(parser.script[1])
  /\ Strip(AfterLastSpan(parser.rawText)) # <<>>
  /\ IsContent(parser.rawText[Len(parser.rawText)])

\* empty quoted spans, all of them closed, with narration before the first
\* and after the last
EmptyQuotesBetweenNarration(text) ==
  /\ NSpans(text) >= 1
  /\ ~Unterminated(text)
  /\ \A k \in 1..NSpans(text) : SpanInner(text, k) = <<>>
  /\ ~Blank(SubSeq(text, 1, QuotesOf(text, 1)[1] - 1))
  /\ ~Blank(AfterLastSpan(text))

\* C20: when empty quoted spans ("") separate narration text, parseScript
\* filters them out and emits the narration on both sides as exactly one
\* narration block holding all of it.
C20_Original ==
  (parser.pc = "done" /\ EmptyQuotesBetweenNarration(parser.rawText)) =>
    /\ Len(parser.script) = 1
    /\ IsNarration(parser.script[1])
    /\ Strip(parser.script[1].text) = Strip(parser.rawText)

\* ---------------------------------------------- claims about detectSpeakers
\* the positions (from 1) of the dialogue blocks of a script
DialoguePositions(blocks) ==
  {p \in 1..Len(blocks) : blocks[p].type = "dialogue"}

\* the narration texts among the blocks p-3 .. p-1, oldest first, joined by
\* single spaces
RECURSIVE WindowFrom(_, _, _)
WindowFrom(blocks, j, p) ==
  IF j >= p THEN <<>>
  ELSE IF blocks[j].type = "narration" /\ j >= 1
       THEN LET rest == WindowFrom(blocks, j + 1, p)
            IN IF rest = <<>> THEN blocks[j].text
               ELSE blocks[j].text \o <<Space>> \o rest
       ELSE WindowFrom(blocks, j + 1, p)

Window(blocks, p) == WindowFrom(blocks, IF p > 3 THEN p - 3 ELSE 1, p)

Offsets(name, text) == {i \in 1..Len(text) : MatchesAt(text, name, i)}
Occurs(name, text) == Offsets(name, text) # {}
LastOffset(name, text) == SetMax(Offsets(name, text))

\* the names of the list that occur as whole words in the text
Known(characterList, text) ==
  {characterList[k] : k \in {k \in 1..Len(characterList) :
                               Occurs(characterList[k], text)}}

\* the speaker of the nearest dialogue block before p, Narrator if none
Inherited(result, p) ==
  LET before == {q \in DialoguePositions(result) : q < p}
  IN IF before = {} THEN Narrator ELSE result[SetMax(before)].speaker

Resolving == resolver.pc = "done"

\* C21: when several known names occur in a dialogue block's context window,
\* the speaker is a name whose last whole-word occurrence has the largest
\* character offset in the window.
C21_MostRecent ==
  Resolving =>
    \A p \in DialoguePositions(resolver.structuredScript) :
      LET window == Window(resolver.structuredScript, p)
          known == Known(resolver.characterList, window)
          speaker == resolver.result[p].speaker
      IN known # {} =>
           /\ speaker \in known
           /\ \A name \in known :
                LastOffset(name, window) <= LastOffset(speaker, window)

\* two names in one window, the later one listed second and also occurring
\* first
C21_Witness ==
  /\ Resolving
  /\ resolver.characterList = <<Tom, Amy>>
  /\ \E p \in DialoguePositions(resolver.structuredScript) :
       LET window == Window(resolver.structuredScript, p)
       IN /\ Known(resolver.characterList, window) = {Tom, Amy}
          /\ resolver.result[p].speaker = Amy
          /\ \E i \in Offsets(Tom, window), j \in Offsets(Amy, window) : j < i

\* C22: a dialogue block whose context window holds no known name gets the
\* speaker resolved for the preceding dialogue block, or Narrator if there is
\* no dialogue block before it (the memory is updated after every dialogue
\* block, however its speaker was resolved).
C22_ContextMemory ==
  Resolving =>
    \A p \in DialoguePositions(resolver.structuredScript) :
      Known(resolver.characterList,
            Window(resolver.structuredScript, p)) = {} =>
        resolver.result[p].speaker = Inherited(resolver.result, p)

\* a speaker found by name and inherited by a dialogue whose window holds
\* dialogue only
C22_Witness ==
  /\ Resolving
  /\ \E p \in DialoguePositions(resolver.structuredScript) :
       /\ p >= 5
       /\ Known(resolver.characterList,
                Window(resolver.structuredScript, p)) = {}
       /\ p - 1 \in DialoguePositions(resolver.structuredScript)
       /\ resolver.result[p - 1].speaker = Amy
       /\ resolver.result[p].speaker = Amy

\* C23: the window searched for the dialogue block at position p is the text
\* of the narration blocks among the 3 blocks before it, in document order;
\* the text of dialogue blocks is no part of it: a known name in the window
\* gives the speaker, otherwise the speaker is inherited, and every speaker
\* other than Narrator occurs in a narration block before the dialogue.
C23_Window ==
  Resolving =>
    \A p \in DialoguePositions(resolver.structuredScript) :
      LET window == Window(resolver.structuredScript, p)
          known == Known(resolver.characterList, window)
          speaker == resolver.result[p].speaker
      IN /\ IF known # {} THEN speaker \in known
            ELSE speaker = Inherited(resolver.result, p)
         /\ speaker # Narrator =>
              \E q \in 1..(p - 1) :
                /\ resolver.structuredScript[q].type = "narration"
                /\ Occurs(speaker, resolver.structuredScript[q].text)

\* a known name four blocks before the first dialogue, and in the dialogue
\* itself, and the dialogue is the Narrator's
C23_Witness ==
  /\ Resolving
  /\ Len(resolver.structuredScript) = 5
  /\ DialoguePositions(resolver.structuredScript) = {5}
  /\ resolver.characterList = <<Tom>>
  /\ Occurs(Tom, resolver.structuredScript[1].text)
  /\ Occurs(Tom, resolver.structuredScript[5].text)
  /\ resolver.result[5].speaker = Narrator

NamesOf(characterList) == {characterList[k] : k \in 1..Len(characterList)}

\* C24: after detectSpeakers every dialogue block has a speaker that is an
\* element of the character list or Narrator, every narration block is the
\* block that was given, without a speaker, and the number and the order of
\* the blocks are kept; with an empty list every dialogue is the Narrator's.
C24_Speakers ==
  Resolving =>
    /\ Len(resolver.result) = Len(resolver.structuredScript)
    /\ \A p \in 1..Len(resolver.result) :
         LET given == resolver.structuredScript[p]
             block == resolver.result[p]
         IN IF given.type = "narration"
            THEN block = given /\ DOMAIN block = {"type", "text"}
            ELSE /\ DOMAIN block = {"type", "text", "speaker"}
                 /\ block.type = "dialogue"
                 /\ block.text = given.text
                 /\ block.speaker \in
                      NamesOf(resolver.characterList) \cup {Narrator}
                 /\ resolver.characterList = <<>> => block.speaker = Narrator

\* no character given: narration naming Tom, then two dialogues
C24_Witness ==
  /\ Resolving
  /\ resolver.characterList = <<>>
  /\ Len(resolver.structuredScript) >= 3
  /\ resolver.structuredScript[1] = Block("narration", Tom)
  /\ {2, 3} \subseteq DialoguePositions(resolver.structuredScript)
  /\ resolver.result[3].speaker = Narrator

\* ------------------------------------------------ claims about assignVoices
Assigned == assigner.pc = "done"

\* how many characters of the gender are registered before position p
Earlier(registry, gender, p) ==
  Cardinality({q \in 1..(p - 1) :
                 registry[q].name # Narrator /\ registry[q].gender = gender})

\* C25: the k-th character (k from 0, in registration order) of gender male,
\* and likewise female and neutral, gets pool[k mod len(pool)] of its
\* gender's pool, k counting the characters of that gender only.
C25_Original ==
  Assigned =>
    \A p \in 1..Len(assigner.characterRegistry) :
      LET char == assigner.characterRegistry[p]
      IN (char.name # Narrator /\ char.gender \in {"male", "female", "neutral"})
           => assigner.result[p].voice =
                Cycled(VoicePools[char.gender],
                       Earlier(assigner.characterRegistry, char.gender, p))

RangeOf(pool) == {pool[k] : k \in 1..Len(pool)}

\* C26: the j-th character of unknown gender (j from 0, counting the unknown
\* ones only) is cast from the male pool when j is even and from the female
\* pool when j is odd, whatever else is registered.
C26_Original ==
  Assigned =>
    \A p \in 1..Len(assigner.characterRegistry) :
      LET char == assigner.characterRegistry[p]
          j == Earlier(assigner.characterRegistry, "unknown", p)
      IN (char.name # Narrator /\ char.gender = "unknown")
           => assigner.result[p].voice \in
                RangeOf(IF j % 2 = 0 THEN VoicePools.male ELSE VoicePools.female)

\* ----------------------------------------- claims about the voice casting
Cast == caster.pc = "done"

\* C27: every name of the unisex table is detected as neutral when no profile
\* text asserts a gender, and is cast from the neutral voice pool.
C27_Original ==
  (Cast /\ caster.profile = <<>>) =>
    \A name \in NamesOf(caster.characterList) \cap NAME_DATASETS.unisex :
      LET char == caster.result.registry[KeyOf(caster.result.registry, name)]
      IN /\ char.gender = "neutral"
         /\ char.voice \in RangeOf(VoicePools.neutral)

\* C28: after attachVoices every block carries a voice and is otherwise the
\* block that was given: a narration block the Narrator's voice (the
\* preferred voice when there is one, else the narrator voice of the pools),
\* a dialogue block the registry voice of its speaker, or the fallback voice
\* if the speaker has no entry in the registry.
C28_Attached ==
  Cast =>
    /\ Len(caster.result.script) = Len(caster.structuredScript)
    /\ \A i \in 1..Len(caster.structuredScript) :
         LET given == caster.structuredScript[i]
             block == caster.result.script[i]
             registry == caster.result.registry
         IN /\ DOMAIN block = DOMAIN given \cup {"voice"}
            /\ \A x \in DOMAIN given : block[x] = given[x]
            /\ block.voice # NoVoice
            /\ given.type = "narration" =>
                 block.voice = IF caster.preferredVoiceURI # NoVoice
                               THEN caster.preferredVoiceURI
                               ELSE VoicePools.narrator
            /\ given.type = "dialogue" =>
                 block.voice =
                   IF \E k \in 1..Len(registry) : registry[k].name = given.speaker
                   THEN registry[CHOOSE k \in 1..Len(registry) :
                                   registry[k].name = given.speaker].voice
                   ELSE VoicePools.fallback

\* a preferred voice on the narration and the fallback voice on the dialogue
\* of Tom, who is not listed
C28_Witness ==
  /\ Cast
  /\ caster.preferredVoiceURI = "custom_voice"
  /\ caster.characterList = <<Kai>>
  /\ Len(caster.result.script) = 2
  /\ caster.result.script[1].type = "narration"
  /\ caster.result.script[1].voice = "custom_voice"
  /\ caster.result.script[2].speaker = Tom
  /\ caster.result.script[2].voice = "default_voice"

\* ---------------------------------------------- claims about the pipeline
\* C29: parseScriptComplete run twice on the same text and the same character
\* list, the second run with the list as the caller holds it after the first,
\* yields identical blocks, speakers and voice assignments.
C29_Original ==
  Len(pipeline.results) = 2 => pipeline.results[1] = pipeline.results[2]

\* --------------------------------------- claims about extractCharacterNames
Extracted == extractor.pc = "done"

PlausibleList(elements) ==
  LET bestList == BestList(elements, 1, <<>>)
  IN {bestList[k] : k \in 1..Len(bestList)}

\* C31: when the page yields a plausible list of names, the result of
\* extractCharacterNames holds names of that list only; names found by
\* tokenizing the text appear only when the page yields no plausible list.
C31_Original ==
  (Extracted /\ PlausibleList(extractor.elements) # {})
    => extractor.result \subseteq PlausibleList(extractor.elements)

\* ------------------------------------------------- claims about smartSplit
Chunked == splitter.pc = "done"

\* the text without its whitespace
RECURSIVE Squeezed(_)
Squeezed(text) ==
  IF text = <<>> THEN <<>>
  ELSE IF IsWhitespace(Head(text)) THEN Squeezed(Tail(text))
  ELSE <<Head(text)>> \o Squeezed(Tail(text))

\* C32: for every text and every maxLength >= 1, each chunk smartSplit
\* returns has at most maxLength characters.
C32_Bounded ==
  Chunked => \A i \in 1..Len(splitter.chunks) :
             Len(splitter.chunks[i]) <= splitter.maxLength

\* a text that no boundary divides is cut by force into three chunks, the
\* first two of exactly maxLength characters
C32_Witness ==
  /\ Chunked
  /\ Len(splitter.chunks) = 3
  /\ \A i \in 1..Len(splitter.text) : ~IsWhitespace(splitter.text[i])
  /\ Len(splitter.chunks[1]) = splitter.maxLength
  /\ Len(splitter.chunks[2]) = splitter.maxLength

\* C33: smartSplit never returns an empty chunk: every element of the list
\* it returns is a non-empty string, whatever the text and maxLength.
C33_Original ==
  Chunked => \A i \in 1..Len(splitter.chunks) : splitter.chunks[i] # <<>>

\* C34: smartSplit loses and reorders no text: the chunks, one after the
\* other and without their whitespace, are the text without its whitespace.
C34_Lossless ==
  Chunked => Squeezed(Glued(splitter.chunks)) = Squeezed(splitter.text)

\* a text cut at a sentence boundary, whose whitespace is in neither chunk
C34_Witness ==
  /\ Chunked
  /\ Len(splitter.chunks) = 2
  /\ splitter.chunks[1][Len(splitter.chunks[1])] = "."
  /\ Len(splitter.chunks[1]) + Len(splitter.chunks[2]) < Len(splitter.text)

\* --------------------------------------- claims about the callback protocol
\* C35: for each unit the consumer takes from the queue, onChunkStart is
\* emitted once, then exactly one of onChunkEnd (the playback resolved) and
\* onError (it rejected), never both, and with that the cursor advances and
\* onProgress is emitted: at any moment the units started are the units
\* finished, plus the one that is playing, and the units finished are the
\* ended and the failed ones, the cursor and the progress reports.
C35_Protocol ==
  \A s \in Sessions :
    LET h == hist[s]
        finished == h.chunkEnd + h.playErrors
    IN /\ Len(h.played) = finished + (IF consumer[s].pc = "playing" THEN 1 ELSE 0)
       /\ h.playErrors = h.playFailed
       /\ consumer[s].currentIndex = finished
       /\ h.progress = finished

\* a playback whose loop has exited after one unit that ended and one that
\* failed
C35_Witness ==
  \E s \in Sessions :
    /\ consumer[s].pc = "exited"
    /\ hist[s].chunkEnd >= 1
    /\ hist[s].playErrors >= 1
    /\ Len(hist[s].played) = hist[s].chunkEnd + hist[s].playErrors

\* ------------------------------------- claims about superseded play() calls
\* C36 as stated: while the most recently started play() call is running and
\* no stop() is called, the snapshot keeps isActive = true and the session id
\* of that call; no step of an earlier play() call changes them.
C36_Original ==
  [][LET s == nSessions
     IN (/\ s > 0
         /\ UNCHANGED nSessions
         /\ ePc[s] # "returned"
         /\ ePc'[s] # "returned"
         /\ ~(Stop \/ Cancel)
         /\ state.isActive
         /\ state.currentSessionId = s)
        => (state'.isActive /\ state'.currentSessionId = s)]_vars

\* C37 as stated: the end-of-playback callback of a playback that was
\* stopped or superseded (a speak() call after which play() started another)
\* never stops or resets the playback started after it: the step in which
\* such a call ends leaves currentButton and playbackState as they are.
C37_Original ==
  [][\A k \in 1..Len(tts.calls) :
       (/\ k < Len(tts.calls)
        /\ Len(tts'.calls) = Len(tts.calls)
        /\ tts.calls[k].pc # "done"
        /\ tts'.calls[k].pc = "done")
       => controller' = controller]_vars

\* ------------------------------------------- claims about the producer's count
\* C38: wherever the producer is suspended or finished, its generatedCount
\* is the length of its queue: through generateScript's reset, units that
\* were generated, units that failed, and stop().
C38_CountIsLength ==
  \A s \in Sessions :
    producer[s].generatedCount = Len(producer[s].audioQueue)

\* a producer that was stopped, had a unit fail, and has pushed a unit after
\* the stop
C38_Witness ==
  \E s \in Sessions :
    /\ hist[s].pushAfterStop
    /\ hist[s].genErrors >= 1
    /\ producer[s].generatedCount >= 1

====
